---- MODULE Spec2Model ----
(***************************************************************************)
(* Connection manager of the Home Assistant MQTT plugin for the Steam     *)
(* Deck: src/main.py (class MQTTClient, Plugin.test_connection) and its    *)
(* library copy src/lib/mqtt_client.py.                                    *)
(*                                                                         *)
(* Python strings that the code computes on (hostnames, topics) are        *)
(* sequences of one-character strings; presence payloads are plain         *)
(* strings, and a JSON payload is the dictionary it encodes, as a record.  *)
(* The host's calls run on one thread (the asyncio loop, which the         *)
(* blocking connect()/disconnect() occupy); every transport client has     *)
(* its own network thread (loop_start) on which on_connect and             *)
(* on_disconnect run, interleaved with the host thread statement by        *)
(* statement.                                                              *)
(***************************************************************************)
EXTENDS Integers, Sequences, FiniteSets, TLC

\* ------------------------------------------------------------------ bounds
\* transport clients (mqtt.Client objects) created in one run
MaxHandles == 2

\* ------------------------------------------------------- program constants
\* for _ in range(10) in MQTTClient.connect
POLL_ATTEMPTS == 10

STATE_TOPIC_PREFIX == <<"s", "t", "e", "a", "m", "d", "e", "c", "k">>

\* -------------------------------------------------------------- strings
\* str.lower() on the characters the model's hostnames are made of
lower(ch) ==
    CASE ch = "S" -> "s"
      [] ch = "D" -> "d"
      [] OTHER -> ch

RECURSIVE str_lower(_)
str_lower(s) ==
    IF s = <<>> THEN <<>> ELSE <<lower(Head(s))>> \o str_lower(Tail(s))

\* str.replace(old, new) for a one-character old and new
RECURSIVE str_replace(_, _, _)
str_replace(s, old, new) ==
    IF s = <<>> THEN <<>>
    ELSE <<IF Head(s) = old THEN new ELSE Head(s)>> \o str_replace(Tail(s), old, new)

\* sanitize_identifier without its lower()
sanitize_identifier_keeps_case(name) ==
    str_replace(str_replace(str_replace(name, " ", "_"), "-", "_"), ".", "_")

\* name.lower().replace(" ", "_").replace("-", "_").replace(".", "_")
sanitize_identifier(name) ==
    str_replace(str_replace(str_replace(str_lower(name), " ", "_"), "-", "_"), ".", "_")

\* hostnames the host may configure; <<>> is the empty string
Hostnames == { <<>>, <<"S", "-", "D">> }

\* f"{STATE_TOPIC_PREFIX}/{self.hostname}/status"
StatusTopicOf(hostname) ==
    STATE_TOPIC_PREFIX \o <<"/">> \o hostname \o <<"/">> \o <<"s", "t", "a", "t", "u", "s">>

\* a telemetry topic, as the callers of publish() build it
TelemetryTopic ==
    STATE_TOPIC_PREFIX \o <<"/">> \o <<"s", "_", "d">> \o <<"/">> \o <<"t", "e", "l", "e", "m", "e", "t", "r", "y">>

NoTopic == <<>>

StatusTopics == { StatusTopicOf(sanitize_identifier(h)) : h \in Hostnames \ {<<>>} }

\* what the callers of publish() outside MQTTClient pass it
PublishTopics == {TelemetryTopic}

PublishPayloads == {"data"}

\* ------------------------------------------------------------------ state
Clients == {"primary", "test"}

Handles == 1..MaxHandles

\* self.client = None
None == 0

NoCall == [kind |-> "none"]

NoReturn == [op |-> "none", val |-> FALSE]

\* no will_set() call was made
NoWill == [topic |-> NoTopic, payload |-> "", qos |-> 0, retain |-> FALSE]

VARIABLES
    alive,          \* the plugin process is running
    settings,       \* Plugin.settings (the keys the connection manager reads)
    mq,             \* the MQTTClient objects: Plugin.mqtt_client and test_client
    tr,             \* the transport clients (mqtt.Client objects) ever created
    nextHandle,     \* the next transport client to be created
    pc,             \* the host thread's position
    cur,            \* the MQTTClient the host thread is executing a method of
    stack,          \* where the method in progress returns to
    poll,           \* the loop variable of connect()'s wait loop
    ret,            \* the value a method returned in the last step, if any
    success,        \* the local of Plugin.test_connection
    xmit,           \* the transport publish call made by the last step, if any
    retained,       \* the broker's retained payload per status topic
    willPending,    \* the last wills the broker has still to publish
    dropped,        \* history: the status topics of the sessions a crash cut off
    hist,           \* history: per MQTTClient, what its current connect attempt did
    running,        \* Plugin.running
    discovery,      \* Plugin.discovery
    task,           \* Plugin.telemetry_task
    ri,             \* _register_sensors: the next descriptor of the run in progress
    game_state,     \* Plugin.game_state
    download_state, \* Plugin.download_state
    timers,         \* the download_completed handlers asleep before their clear
    lossy,          \* history: a publish call of the plugin's method in progress
                    \*   was skipped, did not reach the transport or was refused
    out,            \* history: while none was, the messages the transport
                    \*   accepted from that method, oldest first
    registered      \* history: a registration run has finished since the primary
                    \*   session's connected flag last went from false to true

\* the state of the Plugin object apart from its settings and its MQTTClient
plugin == <<running, discovery, task, ri, game_state, download_state, timers,
            lossy, out>>

vars == <<alive, settings, mq, tr, nextHandle, pc, cur, stack, poll, ret,
          success, xmit, retained, willPending, dropped, hist, plugin, registered>>

\* MQTTClient.__init__
NewMQTTClient ==
    [client |-> None, connected |-> FALSE, hostname |-> <<>>, status_topic |-> NoTopic]

\* a transport client that does not exist yet
NoTransport ==
    [owner |-> "primary", will |-> NoWill, topic |-> NoTopic,
     sock |-> "none", loop |-> FALSE, cb |-> "idle"]

\* clean: a transport client was created by connect(), nothing but connect()
\*        and disconnect() of this MQTTClient was called since, and since then
\*        no transport publish of it failed or raised and its connection was
\*        not lost; while it holds:
\* last:  the last payload the transport accepted from this MQTTClient on its
\*        status topic since then ("none": nothing yet)
NoHist == [clean |-> FALSE, last |-> "none"]

\* the sensor categories, in the order _register_sensors goes through them
Categories == <<"battery", "disk", "network", "game", "download">>

CategorySet == { Categories[i] : i \in DOMAIN Categories }

\* a field that holds None (0 is a progress and a rate)
Absent == -1

\* Plugin._get_default_settings: the keys the model reads; a flag of
\* enabled_sensors is "true", "false" or "missing" (the key is not there)
_get_default_settings(hostname) ==
    [hostname |-> hostname, mqtt_host |-> "", mqtt_password |-> "",
     enabled_sensors |-> [c \in CategorySet |-> "true"]]

NoDiscovery == [set |-> FALSE, hostname |-> <<>>]

\* self.game_state of Plugin.__init__
NoGame == [is_running |-> FALSE, app_id |-> Absent, app_name |-> Absent]

\* self.download_state of Plugin.__init__
NoDownload ==
    [downloading |-> FALSE, progress |-> Absent, rate_mbps |-> Absent, app_id |-> Absent]

\* Plugin.__init__, apart from settings and mqtt_client
PluginInit ==
    /\ running = FALSE
    /\ discovery = NoDiscovery
    /\ task = "none"
    /\ ri = 0
    /\ game_state = NoGame
    /\ download_state = NoDownload
    /\ timers = 0
    /\ out = <<>>
    /\ lossy = FALSE

Init ==
    /\ alive = TRUE
    /\ \E h \in Hostnames \ {<<>>} : settings = _get_default_settings(h)
    /\ mq = [c \in Clients |-> NewMQTTClient]
    /\ tr = [h \in Handles |-> NoTransport]
    /\ nextHandle = 1
    /\ pc = "idle"
    /\ cur = "primary"
    /\ stack = <<>>
    /\ poll = 0
    /\ ret = NoReturn
    /\ success = FALSE
    /\ xmit = NoCall
    /\ retained = [t \in StatusTopics |-> "none"]
    /\ willPending = {}
    /\ dropped = {}
    /\ hist = [c \in Clients |-> NoHist]
    /\ PluginInit
    /\ registered = FALSE

\* ------------------------------------------------------------- helpers
\* what mqtt.Client.publish can do: accept the packet (rc == MQTT_ERR_SUCCESS),
\* return another rc, or raise; it accepts only on an established session
TransportOutcomes(h) ==
    IF h # None /\ tr[h].sock = "acked" THEN {"ok", "err", "raise"} ELSE {"err", "raise"}

\* publish() without the check of self.connected
publish_ignores_connected(c) == mq[c].client # None

\* MQTTClient.publish: the guard that lets the call through to the transport
publish_reaches_transport(c) == mq[c].client # None /\ mq[c].connected

\* publish() returning true for every call the transport did not raise on
publish_result_ignores_rc(c, o) == publish_reaches_transport(c) /\ o # "raise"

\* MQTTClient.publish: the value returned, the transport's outcome being o
publish_result(c, o) == publish_reaches_transport(c) /\ o = "ok"

\* MQTTClient.publish: the effect on the wire and on the broker
publish(c, topic, payload, retain, qos, o, keepClean) ==
    IF publish_reaches_transport(c)
    THEN /\ xmit' = [kind |-> "publish", by |-> mq[c].client, topic |-> topic,
                     payload |-> payload, qos |-> qos, retain |-> retain, outcome |-> o]
         /\ retained' = IF o = "ok" /\ retain /\ topic \in StatusTopics
                        THEN [retained EXCEPT ![topic] = payload]
                        ELSE retained
         /\ hist' = IF hist[c].clean /\ keepClean /\ o = "ok"
                    THEN [hist EXCEPT ![c].last = IF topic = mq[c].status_topic
                                                  THEN payload ELSE @]
                    ELSE [hist EXCEPT ![c] = NoHist]
    ELSE /\ xmit' = NoCall
         /\ retained' = retained
         /\ hist' = IF keepClean THEN hist ELSE [hist EXCEPT ![c] = NoHist]

\* a method of an MQTTClient returns v to its caller; in test_connection and
\* in connect_mqtt, success = <the client>.connect()
Return(op, v) ==
    /\ ret' = [op |-> op, val |-> v]
    /\ pc' = Head(stack)
    /\ stack' = Tail(stack)
    /\ success' = IF Head(stack) \in {"t_disconnect", "connect_mqtt_connected"}
                  THEN v ELSE success

\* ------------------------------------------------- MQTTClient.configure
configure_hostname(hostname) ==
    IF hostname # <<>> THEN sanitize_identifier(hostname) ELSE <<>>

configure_status_topic(old, hostname) ==
    IF configure_hostname(hostname) # <<>>
    THEN StatusTopicOf(configure_hostname(hostname))
    ELSE old

configure(m, hostname) ==
    [m EXCEPT !.hostname = configure_hostname(hostname),
              !.status_topic = configure_status_topic(m.status_topic, hostname)]

\* the host calls configure() on the plugin's MQTTClient
ConfigureCall(hostname) ==
    /\ alive /\ pc = "idle"
    /\ mq' = [mq EXCEPT !["primary"] = configure(@, hostname)]
    /\ hist' = [hist EXCEPT !["primary"] = NoHist]
    /\ ret' = [op |-> "configure", val |-> TRUE]
    /\ xmit' = NoCall
    /\ UNCHANGED <<plugin, registered, alive, settings, tr, nextHandle, pc, cur, stack, poll,
                   success, retained, willPending, dropped>>

\* --------------------------------------------------- MQTTClient.connect
\* the host calls connect() on the plugin's MQTTClient
ConnectCall ==
    /\ alive /\ pc = "idle" /\ nextHandle <= MaxHandles
    /\ pc' = "c_check"
    /\ stack' = <<"idle">>
    /\ xmit' = NoCall /\ ret' = NoReturn
    /\ UNCHANGED <<plugin, registered, alive, settings, mq, tr, nextHandle, cur, poll,
                   success, retained, willPending, dropped, hist>>

\* connect() without the teardown of the session that exists
connect_never_tears_down(c) == FALSE

\* if self.client: self.disconnect()
connect_tears_down_first(c) == mq[c].client # None

connect_check ==
    /\ alive /\ pc = "c_check"
    /\ IF connect_tears_down_first(cur)
       THEN pc' = "d_check" /\ stack' = <<"c_new">> \o stack
       ELSE pc' = "c_new" /\ stack' = stack
    /\ xmit' = NoCall /\ ret' = NoReturn
    /\ UNCHANGED <<plugin, registered, alive, settings, mq, tr, nextHandle, cur, poll,
                   success, retained, willPending, dropped, hist>>

\* connect() without the will_set() call
connect_will_omitted(c) == NoWill

\* will_set() called without retain=True
connect_will_not_retained(c) ==
    IF mq[c].status_topic # NoTopic
    THEN [topic |-> mq[c].status_topic, payload |-> "offline", qos |-> 1, retain |-> FALSE]
    ELSE NoWill

\* if self.status_topic: self.client.will_set(topic, "offline", qos=1, retain=True)
connect_will(c) ==
    IF mq[c].status_topic # NoTopic
    THEN [topic |-> mq[c].status_topic, payload |-> "offline", qos |-> 1, retain |-> TRUE]
    ELSE NoWill

\* self.client = mqtt.Client(...); will_set(...); on_connect/on_disconnect set
connect_new ==
    /\ alive /\ pc = "c_new"
    /\ mq' = [mq EXCEPT ![cur].client = nextHandle]
    /\ tr' = [tr EXCEPT ![nextHandle] =
                [owner |-> cur, will |-> connect_will(cur), topic |-> mq[cur].status_topic,
                 sock |-> "new", loop |-> FALSE, cb |-> "idle"]]
    /\ nextHandle' = nextHandle + 1
    /\ hist' = [hist EXCEPT ![cur] = [clean |-> TRUE, last |-> "none"]]
    /\ pc' = "c_connect"
    /\ xmit' = NoCall /\ ret' = NoReturn
    /\ UNCHANGED <<plugin, registered, alive, settings, cur, stack, poll, success, retained,
                   willPending, dropped>>

\* self.client.connect(...) raises: except branch, connected = False, return False
connect_raises ==
    /\ alive /\ pc = "c_connect"
    /\ mq' = [mq EXCEPT ![cur].connected = FALSE]
    /\ Return("connect", FALSE)
    /\ xmit' = NoCall
    /\ UNCHANGED <<plugin, registered, alive, settings, tr, nextHandle, cur, poll, retained,
                   willPending, dropped, hist>>

\* self.client.connect(...) sends CONNECT (with the will); self.client.loop_start()
connect_opens ==
    /\ alive /\ pc = "c_connect"
    /\ tr' = [tr EXCEPT ![mq[cur].client].sock = "pending", ![mq[cur].client].loop = TRUE]
    /\ poll' = 0
    /\ pc' = "c_poll"
    /\ xmit' = NoCall /\ ret' = NoReturn
    /\ UNCHANGED <<plugin, registered, alive, settings, mq, nextHandle, cur, stack, success,
                   retained, willPending, dropped, hist>>

\* connect() reporting success whatever the flag says
connect_result_always_true(v) == TRUE

\* the value connect() returns when it reads the flag as v
connect_result(v) == v

\* the wait loop goes round once more
connect_waits == poll < POLL_ATTEMPTS /\ ~mq[cur].connected

\* for _ in range(10): if self.connected: return True; time.sleep(0.1)
\* return self.connected
connect_poll ==
    /\ alive /\ pc = "c_poll"
    /\ IF connect_waits
       THEN /\ poll' = poll + 1
            /\ ret' = NoReturn
            /\ UNCHANGED <<pc, stack, success>>
       ELSE /\ poll' = 0
            /\ Return("connect", connect_result(mq[cur].connected))
    /\ xmit' = NoCall
    /\ UNCHANGED <<plugin, registered, alive, settings, mq, tr, nextHandle, cur, retained,
                   willPending, dropped, hist>>

\* ------------------------------------------------ MQTTClient.disconnect
\* the host calls disconnect() on the plugin's MQTTClient
DisconnectCall ==
    /\ alive /\ pc = "idle"
    /\ pc' = "d_check"
    /\ stack' = <<"idle">>
    /\ xmit' = NoCall /\ ret' = NoReturn
    /\ UNCHANGED <<plugin, registered, alive, settings, mq, tr, nextHandle, cur, poll,
                   success, retained, willPending, dropped, hist>>

\* if self.connected and self.status_topic: (the read that decides to say "offline")
disconnect_says_offline(c) == mq[c].connected /\ mq[c].status_topic # NoTopic

\* the cleanup placed inside the try block: skipped when the teardown raises
disconnect_cleanup_in_try(m, raised) ==
    IF raised THEN m ELSE [m EXCEPT !.client = None, !.connected = FALSE]

\* self.client = None; self.connected = False, after the try/except
disconnect_cleanup(m, raised) ==
    [m EXCEPT !.client = None, !.connected = FALSE]

\* if self.client: ... else fall through to self.connected = False
disconnect_check ==
    /\ alive /\ pc = "d_check"
    /\ IF mq[cur].client = None
       THEN /\ mq' = [mq EXCEPT ![cur] = disconnect_cleanup(@, FALSE)]
            /\ Return("disconnect", TRUE)
       ELSE /\ pc' = IF disconnect_says_offline(cur) THEN "d_offline" ELSE "d_stop"
            /\ ret' = NoReturn
            /\ UNCHANGED <<mq, stack, success>>
    /\ xmit' = NoCall
    /\ UNCHANGED <<plugin, registered, alive, settings, tr, nextHandle, cur, poll, retained,
                   willPending, dropped, hist>>

\* result = self.publish(self.status_topic, "offline", retain=True, qos=1)
disconnect_offline ==
    /\ alive /\ pc = "d_offline"
    /\ \E o \in TransportOutcomes(mq[cur].client) :
          publish(cur, mq[cur].status_topic, "offline", TRUE, 1, o, TRUE)
    /\ pc' = "d_stop"
    /\ ret' = NoReturn
    /\ UNCHANGED <<plugin, registered, alive, settings, mq, tr, nextHandle, cur, stack, poll,
                   success, willPending, dropped>>

\* self.client.loop_stop() tells the network thread to stop: it starts no
\* further callback
disconnect_loop_stop ==
    /\ alive /\ pc = "d_stop"
    /\ tr' = [tr EXCEPT ![mq[cur].client].loop = FALSE]
    /\ pc' = "d_teardown"
    /\ xmit' = NoCall /\ ret' = NoReturn
    /\ UNCHANGED <<plugin, registered, alive, settings, mq, nextHandle, cur, stack, poll, success,
                   retained, willPending, dropped, hist>>

\* loop_stop() joins the network thread, which first finishes the callback it
\* is in; self.client.disconnect() sends DISCONNECT on an open socket (the broker
\* drops the will) or raises (the socket is abandoned: the broker sees it drop);
\* self.client = None; self.connected = False
disconnect_teardown ==
    /\ alive /\ pc = "d_teardown"
    /\ tr[mq[cur].client].cb = "idle"
    /\ \E raised \in BOOLEAN :
         LET h == mq[cur].client
         IN /\ tr' = [tr EXCEPT ![h] = [NoTransport EXCEPT !.owner = tr[h].owner,
                                                            !.sock = "closed"]]
            /\ willPending' = IF raised /\ tr[h].sock = "acked" /\ tr[h].will # NoWill
                              THEN willPending \cup {tr[h].will}
                              ELSE willPending
            /\ mq' = [mq EXCEPT ![cur] = disconnect_cleanup(@, raised)]
    /\ Return("disconnect", TRUE)
    /\ xmit' = NoCall
    /\ UNCHANGED <<plugin, registered, alive, settings, nextHandle, cur, poll, retained, dropped, hist>>

\* --------------------------------------------------- MQTTClient.publish
\* the host calls publish() on the plugin's MQTTClient
PublishCall(topic, payload, retain, qos) ==
    /\ alive /\ pc = "idle"
    /\ \E o \in TransportOutcomes(mq["primary"].client) :
         /\ publish("primary", topic, payload, retain, qos, o, FALSE)
         /\ ret' = [op |-> "publish", val |-> publish_result("primary", o)]
    /\ UNCHANGED <<plugin, registered, alive, settings, mq, tr, nextHandle, pc, cur, stack, poll,
                   success, willPending, dropped>>

\* ----------------------------------------- MQTTClient.publish_heartbeat
\* if self.status_topic and self.connected:
publish_heartbeat_guard(c) == mq[c].status_topic # NoTopic /\ mq[c].connected

\* the host calls publish_heartbeat() on the plugin's MQTTClient
PublishHeartbeatCall ==
    /\ alive /\ pc = "idle"
    /\ IF publish_heartbeat_guard("primary")
       THEN \E o \in TransportOutcomes(mq["primary"].client) :
              /\ publish("primary", mq["primary"].status_topic, "online", TRUE, 1, o, FALSE)
              /\ ret' = [op |-> "publish_heartbeat", val |-> publish_result("primary", o)]
       ELSE /\ xmit' = NoCall
            /\ retained' = retained
            /\ hist' = [hist EXCEPT !["primary"] = NoHist]
            /\ ret' = [op |-> "publish_heartbeat", val |-> FALSE]
    /\ UNCHANGED <<plugin, registered, alive, settings, mq, tr, nextHandle, pc, cur, stack, poll,
                   success, willPending, dropped>>

\* ----------------------------------------------- Plugin.test_connection
\* test_client = MQTTClient(); test_client.configure(..., hostname);
\* success = test_client.connect()
test_connection_start ==
    /\ alive /\ pc = "idle" /\ nextHandle <= MaxHandles
    /\ mq' = [mq EXCEPT !["test"] = configure(NewMQTTClient, settings.hostname)]
    /\ cur' = "test"
    /\ pc' = "c_check"
    /\ stack' = <<"t_disconnect">>
    /\ hist' = [hist EXCEPT !["primary"] = NoHist]
    /\ xmit' = NoCall /\ ret' = NoReturn
    /\ UNCHANGED <<plugin, registered, alive, settings, tr, nextHandle, poll, success, retained,
                   willPending, dropped>>

\* test_client.disconnect()
test_connection_disconnect ==
    /\ alive /\ pc = "t_disconnect"
    /\ pc' = "d_check"
    /\ stack' = <<"t_return">>
    /\ xmit' = NoCall /\ ret' = NoReturn
    /\ UNCHANGED <<plugin, registered, alive, settings, mq, tr, nextHandle, cur, poll, success,
                   retained, willPending, dropped, hist>>

\* return {"success": success}; test_client goes out of scope
test_connection_return ==
    /\ alive /\ pc = "t_return"
    /\ ret' = [op |-> "test_connection", val |-> success]
    /\ success' = FALSE
    /\ mq' = [mq EXCEPT !["test"] = NewMQTTClient]
    /\ hist' = [hist EXCEPT !["test"] = NoHist]
    /\ cur' = "primary"
    /\ pc' = "idle"
    /\ xmit' = NoCall
    /\ UNCHANGED <<plugin, registered, alive, settings, tr, nextHandle, stack, poll, retained,
                   willPending, dropped>>

\* --------------------------------- the network thread of transport client h
\* on_connect: self.connected = True if reason_code == 0, else False
on_connect_flag(rc) == rc = 0

\* CONNACK arrives: on_connect runs up to its publish
on_connect(h, rc) ==
    /\ alive /\ tr[h].loop /\ tr[h].cb = "idle" /\ tr[h].sock = "pending"
    /\ mq' = [mq EXCEPT ![tr[h].owner].connected = on_connect_flag(rc)]
    /\ tr' = IF rc = 0
             THEN [tr EXCEPT ![h].sock = "acked", ![h].cb = "on_connect_publish"]
             ELSE [tr EXCEPT ![h].sock = "lost"]
    /\ registered' = (registered /\ ~(tr[h].owner = "primary" /\ rc = 0
                                        /\ ~mq["primary"].connected))
    /\ xmit' = NoCall /\ ret' = NoReturn
    /\ UNCHANGED <<plugin, alive, settings, nextHandle, pc, cur, stack, poll, success,
                   retained, willPending, dropped, hist>>

\* if self.status_topic: self.publish(self.status_topic, "online", retain=True, qos=1)
on_connect_publish(h) ==
    /\ alive /\ tr[h].cb = "on_connect_publish"
    /\ LET c == tr[h].owner
       IN IF mq[c].status_topic # NoTopic
          THEN \E o \in TransportOutcomes(mq[c].client) :
                  publish(c, mq[c].status_topic, "online", TRUE, 1, o, TRUE)
          ELSE xmit' = NoCall /\ UNCHANGED <<retained, hist>>
    /\ tr' = [tr EXCEPT ![h].cb = "idle"]
    /\ ret' = NoReturn
    /\ UNCHANGED <<plugin, registered, alive, settings, mq, nextHandle, pc, cur, stack, poll,
                   success, willPending, dropped>>

\* on_disconnect setting the flag the wrong way
on_disconnect_flag_stale == TRUE

\* on_disconnect: self.connected = False
on_disconnect_flag == FALSE

\* the connection drops: on_disconnect runs
on_disconnect(h) ==
    /\ alive /\ tr[h].loop /\ tr[h].cb = "idle" /\ tr[h].sock \in {"pending", "acked"}
    /\ mq' = [mq EXCEPT ![tr[h].owner].connected = on_disconnect_flag]
    /\ tr' = [tr EXCEPT ![h].sock = "lost"]
    /\ willPending' = IF tr[h].sock = "acked" /\ tr[h].will # NoWill
                      THEN willPending \cup {tr[h].will}
                      ELSE willPending
    /\ hist' = [hist EXCEPT ![tr[h].owner] = NoHist]
    /\ xmit' = NoCall /\ ret' = NoReturn
    /\ UNCHANGED <<plugin, registered, alive, settings, nextHandle, pc, cur, stack, poll, success,
                   retained, dropped>>

\* the transport's loop reconnects on its own: CONNECT is sent again
TransportReconnect(h) ==
    /\ alive /\ tr[h].loop /\ tr[h].cb = "idle" /\ tr[h].sock = "lost"
    /\ tr' = [tr EXCEPT ![h].sock = "pending"]
    /\ xmit' = NoCall /\ ret' = NoReturn
    /\ UNCHANGED <<plugin, registered, alive, settings, mq, nextHandle, pc, cur, stack, poll,
                   success, retained, willPending, dropped, hist>>

\* ------------------------------------------------------------ the broker
\* the broker publishes the last will of a session that dropped
BrokerPublishesWill(w) ==
    /\ w \in willPending
    /\ retained' = IF w.retain THEN [retained EXCEPT ![w.topic] = w.payload] ELSE retained
    /\ willPending' = willPending \ {w}
    /\ xmit' = NoCall /\ ret' = NoReturn
    /\ UNCHANGED <<plugin, registered, alive, settings, mq, tr, nextHandle, pc, cur, stack, poll,
                   success, dropped, hist>>

\* the process dies without running any more code: every established session
\* drops without DISCONNECT, and the state of the process is gone
Crash ==
    /\ alive
    /\ alive' = FALSE
    /\ willPending' = willPending \cup
          { tr[h].will : h \in { g \in Handles : tr[g].sock = "acked" /\ tr[g].will # NoWill } }
    /\ dropped' =
          { tr[h].topic : h \in { g \in Handles : tr[g].sock = "acked" /\ tr[g].topic # NoTopic } }
    /\ mq' = [c \in Clients |-> NewMQTTClient]
    /\ tr' = [h \in Handles |-> NoTransport]
    /\ hist' = [c \in Clients |-> NoHist]
    /\ nextHandle' = 1
    /\ registered' = FALSE
    /\ pc' = "dead" /\ cur' = "primary" /\ stack' = <<>> /\ poll' = 0 /\ success' = FALSE
    /\ xmit' = NoCall /\ ret' = NoReturn
    /\ running' = FALSE /\ discovery' = NoDiscovery /\ task' = "none" /\ ri' = 0
    /\ game_state' = NoGame /\ download_state' = NoDownload
    /\ timers' = 0 /\ out' = <<>> /\ lossy' = FALSE
    /\ UNCHANGED <<settings, retained>>

\* ======================================================================
\* The plugin: src/main.py, classes HomeAssistantDiscovery and Plugin.
\* Its methods are coroutines of one asyncio loop: a method runs from its
\* start to its first suspending await (asyncio.sleep, awaiting a task)
\* without another coroutine in between, but the network threads of the
\* transport clients run at any point of it.
\* ======================================================================
MQTT_DISCOVERY_PREFIX == <<"h", "o", "m", "e", "a", "s", "s", "i", "s", "t", "a", "n", "t">>
SENSOR == <<"s", "e", "n", "s", "o", "r">>
BINARY_SENSOR == <<"b", "i", "n", "a", "r", "y", "_", "s", "e", "n", "s", "o", "r">>
\* the sensor_type argument of publish_state for a category
SensorType(cat) ==
    CASE cat = "battery" -> <<"b", "a", "t", "t", "e", "r", "y">>
      [] cat = "disk" -> <<"d", "i", "s", "k">>
      [] cat = "network" -> <<"n", "e", "t", "w", "o", "r", "k">>
      [] cat = "game" -> <<"g", "a", "m", "e">>
      [] cat = "download" -> <<"d", "o", "w", "n", "l", "o", "a", "d">>
\* the (component, object_id) arguments of the publish_discovery_config calls
\* of register_status_sensor and of register_<cat>_sensors, in call order
Descriptors(cat) ==
    CASE cat = "status" ->
         << [cat |-> "status", component |-> BINARY_SENSOR,
             object_id |-> <<"s", "t", "a", "t", "u", "s">>] >>
      [] cat = "battery" ->
         << [cat |-> "battery", component |-> SENSOR,
             object_id |-> <<"b", "a", "t", "t", "e", "r", "y", "_", "p", "e", "r", "c", "e", "n", "t">>],
            [cat |-> "battery", component |-> BINARY_SENSOR,
             object_id |-> <<"c", "h", "a", "r", "g", "i", "n", "g">>],
            [cat |-> "battery", component |-> SENSOR,
             object_id |-> <<"b", "a", "t", "t", "e", "r", "y", "_", "t", "i", "m", "e", "_", "r", "e", "m", "a", "i", "n", "i", "n", "g">>] >>
      [] cat = "disk" ->
         << [cat |-> "disk", component |-> SENSOR,
             object_id |-> <<"d", "i", "s", "k", "_", "f", "r", "e", "e", "_", "i", "n", "t", "e", "r", "n", "a", "l">>],
            [cat |-> "disk", component |-> SENSOR,
             object_id |-> <<"d", "i", "s", "k", "_", "u", "s", "e", "d", "_", "i", "n", "t", "e", "r", "n", "a", "l">>],
            [cat |-> "disk", component |-> SENSOR,
             object_id |-> <<"d", "i", "s", "k", "_", "f", "r", "e", "e", "_", "s", "d">>],
            [cat |-> "disk", component |-> BINARY_SENSOR,
             object_id |-> <<"s", "d", "_", "m", "o", "u", "n", "t", "e", "d">>] >>
      [] cat = "network" ->
         << [cat |-> "network", component |-> SENSOR,
             object_id |-> <<"i", "p", "_", "p", "r", "i", "m", "a", "r", "y">>],
            [cat |-> "network", component |-> SENSOR,
             object_id |-> <<"i", "p", "_", "w", "i", "f", "i">>],
            [cat |-> "network", component |-> SENSOR,
             object_id |-> <<"i", "p", "_", "e", "t", "h", "e", "r", "n", "e", "t">>] >>
      [] cat = "game" ->
         << [cat |-> "game", component |-> SENSOR,
             object_id |-> <<"c", "u", "r", "r", "e", "n", "t", "_", "g", "a", "m", "e">>],
            [cat |-> "game", component |-> SENSOR,
             object_id |-> <<"c", "u", "r", "r", "e", "n", "t", "_", "a", "p", "p", "i", "d">>],
            [cat |-> "game", component |-> BINARY_SENSOR,
             object_id |-> <<"g", "a", "m", "e", "_", "r", "u", "n", "n", "i", "n", "g">>] >>
      [] cat = "download" ->
         << [cat |-> "download", component |-> BINARY_SENSOR,
             object_id |-> <<"d", "o", "w", "n", "l", "o", "a", "d", "i", "n", "g">>],
            [cat |-> "download", component |-> SENSOR,
             object_id |-> <<"d", "o", "w", "n", "l", "o", "a", "d", "_", "p", "r", "o", "g", "r", "e", "s", "s">>],
            [cat |-> "download", component |-> SENSOR,
             object_id |-> <<"d", "o", "w", "n", "l", "o", "a", "d", "_", "r", "a", "t", "e">>] >>

\* topic = f"{MQTT_DISCOVERY_PREFIX}/{component}/{self.hostname}_{object_id}/config"
\* a discovery topic that leaves the object id out
DiscoveryTopic_without_object_id(component, hostname, object_id) ==
    MQTT_DISCOVERY_PREFIX \o <<"/">> \o component \o <<"/">> \o hostname
       \o <<"/">> \o <<"c", "o", "n", "f", "i", "g">>

\* topic = f"{MQTT_DISCOVERY_PREFIX}/{component}/{self.hostname}_{object_id}/config"
DiscoveryTopic(component, hostname, object_id) ==
    MQTT_DISCOVERY_PREFIX \o <<"/">> \o component \o <<"/">> \o hostname \o <<"_">>
       \o object_id \o <<"/">> \o <<"c", "o", "n", "f", "i", "g">>

\* topic = f"{STATE_TOPIC_PREFIX}/{self.hostname}/telemetry/{sensor_type}"
StateTopic(hostname, sensor_type) ==
    STATE_TOPIC_PREFIX \o <<"/">> \o hostname \o <<"/">>
       \o <<"t", "e", "l", "e", "m", "e", "t", "r", "y">> \o <<"/">> \o sensor_type

\* the payload of a message whose content the model does not look into
NoData == [none |-> TRUE]

\* enabled.get(cat, True) taking a missing flag for a disabled category
enabled_get_missing_off(enabled, cat) == enabled[cat] = "true"

\* enabled.get(cat, True) on settings["enabled_sensors"]
enabled_get(enabled, cat) == enabled[cat] # "false"

\* the enabled_sensors dictionaries a settings file may hold
EnabledConfigs ==
    { [c \in CategorySet |-> "true"],
      [battery |-> "false", disk |-> "true", network |-> "false",
       game |-> "missing", download |-> "false"],
      [battery |-> "missing", disk |-> "false", network |-> "true",
       game |-> "false", download |-> "true"] }

\* the mqtt_host values a settings file may hold
MqttHosts == {"", "broker"}

\* one more entry of the history of the method in progress; the descriptors
\* of one category that follow each other are one entry
Logged(log, e) ==
    IF log # <<>> /\ e.kind = "config" /\ log[Len(log)] = e THEN log ELSE Append(log, e)

\* self.mqtt_client.publish(topic, payload, retain=retain) called by the
\* plugin; log and lost are the history of its method so far, which goes on
\* after this call (more) or ends with it
PluginPublish(log, lost, e, topic, payload, qos, more) ==
    \E o \in TransportOutcomes(mq["primary"].client) :
        /\ publish("primary", topic, payload, e.retain, qos, o, FALSE)
        /\ out' = IF more /\ ~lost /\ publish_result("primary", o)
                  THEN Logged(log, e) ELSE <<>>
        /\ lossy' = (more /\ (lost \/ ~publish_result("primary", o)))

\* a step of the plugin that calls no publish
NoPublish ==
    /\ xmit' = NoCall
    /\ UNCHANGED <<retained, hist>>

\* ------------------------------------------------- Plugin.connect_mqtt
\* connect_mqtt up to its call of connect(): configure(..., hostname)
connect_mqtt(return_to) ==
    /\ mq' = [mq EXCEPT !["primary"] = configure(@, settings.hostname)]
    /\ hist' = [hist EXCEPT !["primary"] = NoHist]
    /\ pc' = "c_check"
    /\ stack' = <<"connect_mqtt_connected", return_to>>
    /\ out' = <<>> /\ lossy' = FALSE
    /\ xmit' = NoCall /\ ret' = NoReturn
    /\ UNCHANGED <<alive, tr, nextHandle, cur, poll, success, retained, willPending,
                   dropped, discovery, task, ri, game_state, download_state, timers,
                   registered>>

\* the frontend calls connect_mqtt
ConnectMqttCall ==
    /\ alive /\ pc = "idle" /\ running /\ nextHandle <= MaxHandles
    /\ connect_mqtt("idle")
    /\ UNCHANGED <<settings, running>>

\* HomeAssistantDiscovery(self.mqtt_client, hostname)
HomeAssistantDiscovery(hostname) ==
    [set |-> TRUE, hostname |-> sanitize_identifier(hostname)]

\* connect() has returned: if success: self.discovery = ...; _register_sensors()
connect_mqtt_connected ==
    /\ alive /\ pc = "connect_mqtt_connected"
    /\ IF success
       THEN /\ discovery' = HomeAssistantDiscovery(settings.hostname)
            /\ pc' = "register_sensors"
            /\ ri' = 1
       ELSE /\ pc' = "connect_mqtt_return"
            /\ UNCHANGED <<discovery, ri>>
    /\ NoPublish /\ ret' = NoReturn
    /\ UNCHANGED <<alive, settings, mq, tr, nextHandle, cur, stack, poll, success,
                   willPending, dropped, running, task, game_state, download_state,
                   timers, out, lossy, registered>>

\* return {"success": success, "connected": ...}
connect_mqtt_return ==
    /\ alive /\ pc = "connect_mqtt_return"
    /\ ret' = [op |-> "connect_mqtt", val |-> success]
    /\ pc' = Head(stack)
    /\ stack' = Tail(stack)
    /\ out' = <<>> /\ lossy' = FALSE
    /\ NoPublish
    /\ UNCHANGED <<alive, settings, mq, tr, nextHandle, cur, poll, success,
                   willPending, dropped, running, discovery, task, ri, game_state,
                   download_state, timers, registered>>

\* --------------------------------------------- Plugin._register_sensors
\* the register_<cat>_sensors calls of _register_sensors from category i on
RECURSIVE CategoryPlan(_, _)
CategoryPlan(enabled, i) ==
    IF i > Len(Categories) THEN <<>>
    ELSE (IF enabled_get(enabled, Categories[i])
          THEN Descriptors(Categories[i]) ELSE <<>>) \o CategoryPlan(enabled, i + 1)

\* a run of _register_sensors whose register_status_sensor never returns early
RegistrationPlan_status_always(enabled, status_topic) ==
    Descriptors("status") \o CategoryPlan(enabled, 1)

\* the publish_discovery_config calls of one run of _register_sensors, in
\* order; register_status_sensor returns early without a status topic
RegistrationPlan(enabled, status_topic) ==
    (IF status_topic # NoTopic THEN Descriptors("status") ELSE <<>>)
       \o CategoryPlan(enabled, 1)

\* publish_discovery_config: the availability block of the descriptor
Availability(status_topic) == [availability_topic |-> status_topic]

\* config["unique_id"] = f"steamdeck_{self.hostname}_{object_id}"
UniqueId(hostname, object_id) ==
    <<"s", "t", "e", "a", "m", "d", "e", "c", "k", "_">> \o hostname \o <<"_">> \o object_id

\* payload = json.dumps(config): the keys publish_discovery_config adds;
\* if status_topic: the three keys of the availability block (a key the
\* descriptor does not carry reads as the empty string)
DiscoveryConfig(hostname, object_id, status_topic) ==
    [unique_id |-> UniqueId(hostname, object_id),
     availability_topic |-> status_topic,
     payload_available |-> IF status_topic # NoTopic THEN "online" ELSE "",
     payload_not_available |-> IF status_topic # NoTopic THEN "offline" ELSE ""]

\* one publish_discovery_config call of the run in progress, or its end
register_sensors ==
    /\ alive /\ pc = "register_sensors"
    /\ LET plan == IF discovery.set
                   THEN RegistrationPlan(settings.enabled_sensors,
                                         mq["primary"].status_topic)
                   ELSE <<>>
       IN IF ri <= Len(plan)
          THEN /\ PluginPublish(out, lossy,
                                [kind |-> "config", cat |-> plan[ri].cat, retain |-> TRUE,
                                 data |-> Availability(mq["primary"].status_topic)],
                                DiscoveryTopic(plan[ri].component, discovery.hostname,
                                               plan[ri].object_id),
                                DiscoveryConfig(discovery.hostname, plan[ri].object_id,
                                                mq["primary"].status_topic), 0, TRUE)
               /\ ri' = ri + 1
               /\ UNCHANGED <<pc, stack, registered>>
          ELSE /\ pc' = "connect_mqtt_return"
               /\ ri' = 0
               /\ registered' = TRUE
               /\ NoPublish
               /\ UNCHANGED <<stack, out, lossy>>
    /\ ret' = NoReturn
    /\ UNCHANGED <<alive, settings, mq, tr, nextHandle, cur, poll, success,
                   willPending, dropped, running, discovery, task, game_state,
                   download_state, timers>>

\* ---------------------------------------------------- Plugin._main
\* _main: self.running = True; self._load_settings();
\* if self.settings.get("mqtt_host"): await self.connect_mqtt()
main ==
    /\ alive /\ pc = "idle" /\ ~running /\ task = "none"
    /\ running' = TRUE
    /\ \E host \in MqttHosts, enabled \in EnabledConfigs :
         /\ settings' = [settings EXCEPT !.mqtt_host = host, !.enabled_sensors = enabled]
         /\ IF host # ""
            THEN connect_mqtt("main_create_task")
            ELSE /\ pc' = "main_create_task"
                 /\ NoPublish /\ ret' = NoReturn
                 /\ UNCHANGED <<alive, mq, tr, nextHandle, cur, stack, poll, success,
                                willPending, dropped, discovery, task, ri, game_state,
                                download_state, timers, out, lossy, registered>>

\* self.telemetry_task = self.loop.create_task(self._telemetry_loop())
main_create_task ==
    /\ alive /\ pc = "main_create_task"
    /\ task' = "sleeping"
    /\ pc' = "idle"
    /\ NoPublish /\ ret' = NoReturn
    /\ UNCHANGED <<alive, settings, mq, tr, nextHandle, cur, stack, poll, success,
                   willPending, dropped, running, discovery, ri, game_state,
                   download_state, timers, out, lossy, registered>>

\* ------------------------------------------------ Plugin.disconnect_mqtt
\* the frontend calls disconnect_mqtt: self.mqtt_client.disconnect()
disconnect_mqtt == running /\ DisconnectCall

\* -------------------------------------------- Plugin._publish_telemetry
\* _publish_telemetry publishing the game state as well
TelemetryCategories_with_game == <<"battery", "disk", "network", "game">>

\* _publish_telemetry polling the disk first
TelemetryCategories_disk_first == <<"disk", "battery", "network">>

\* the categories _publish_telemetry polls, in its order
TelemetryCategories == <<"battery", "disk", "network">>

\* if not self.mqtt_client.connected or not self.discovery: return
publish_telemetry_guard == mq["primary"].connected /\ discovery.set

\* what a TelemetryCollector call returns
Snapshot(cat) == [snapshot |-> cat]

\* _publish_telemetry after its guard: publish_heartbeat() (ri = 0), then
\* publish_state(cat, ..., retain=True) for TelemetryCategories[ri] if enabled
publish_telemetry ==
    /\ alive /\ pc = "publish_telemetry"
    /\ IF ri = 0
       THEN IF publish_heartbeat_guard("primary")
            THEN PluginPublish(out, lossy,
                               [kind |-> "presence", cat |-> "status", retain |-> TRUE,
                                data |-> [payload |-> "online"]],
                               mq["primary"].status_topic, "online", 1, TRUE)
            ELSE NoPublish /\ out' = <<>> /\ lossy' = TRUE
       ELSE IF enabled_get(settings.enabled_sensors, TelemetryCategories[ri])
            THEN PluginPublish(out, lossy,
                               [kind |-> "state", cat |-> TelemetryCategories[ri],
                                retain |-> TRUE, data |-> Snapshot(TelemetryCategories[ri])],
                               StateTopic(discovery.hostname,
                                          SensorType(TelemetryCategories[ri])),
                               Snapshot(TelemetryCategories[ri]), 0, TRUE)
            ELSE NoPublish /\ UNCHANGED <<out, lossy>>
    /\ IF ri < Len(TelemetryCategories)
       THEN ri' = ri + 1 /\ UNCHANGED <<pc, stack>>
       ELSE ri' = 0 /\ pc' = Head(stack) /\ stack' = Tail(stack)
    /\ ret' = NoReturn
    /\ UNCHANGED <<alive, settings, mq, tr, nextHandle, cur, poll, success,
                   willPending, dropped, running, discovery, task, game_state,
                   download_state, timers, registered>>

\* while self.running: the loop is at its sleep and was not cancelled
telemetry_loop_runs == running /\ task = "sleeping"

\* one iteration of _telemetry_loop up to the first publish:
\* if self.mqtt_client.connected: await self._publish_telemetry()
\* (an iteration that publishes nothing goes to the sleep at once)
telemetry_loop ==
    /\ alive /\ pc = "idle" /\ telemetry_loop_runs
    /\ out' = <<>>
    /\ IF mq["primary"].connected /\ publish_telemetry_guard
       THEN /\ pc' = "publish_telemetry" /\ stack' = <<"telemetry_loop_sleep">>
            /\ lossy' = FALSE
       ELSE /\ pc' = "telemetry_loop_sleep" /\ stack' = stack
            /\ lossy' = TRUE
    /\ NoPublish /\ ret' = NoReturn
    /\ UNCHANGED <<alive, settings, mq, tr, nextHandle, cur, poll, success,
                   willPending, dropped, running, discovery, task, ri, game_state,
                   download_state, timers, registered>>

\* await asyncio.sleep(interval): the iteration is over
telemetry_loop_sleep ==
    /\ alive /\ pc = "telemetry_loop_sleep"
    /\ pc' = "idle"
    /\ out' = <<>> /\ lossy' = FALSE
    /\ NoPublish /\ ret' = NoReturn
    /\ UNCHANGED <<alive, settings, mq, tr, nextHandle, cur, stack, poll, success,
                   willPending, dropped, running, discovery, task, ri, game_state,
                   download_state, timers, registered>>

\* the TelemetryCollector calls that touch the file system outside a try
\* block (Path.iterdir in get_battery_info, Path.exists in get_disk_info)
CollectorMayRaise(cat) == cat \in {"battery", "disk"}

\* an exception of _publish_telemetry that ends the telemetry task
publish_telemetry_raises_uncaught ==
    /\ alive /\ pc = "publish_telemetry" /\ ri >= 1
    /\ enabled_get(settings.enabled_sensors, TelemetryCategories[ri])
    /\ CollectorMayRaise(TelemetryCategories[ri])
    /\ ri' = 0
    /\ out' = <<>> /\ lossy' = TRUE
    /\ pc' = "idle"
    /\ stack' = Tail(stack)
    /\ task' = IF Head(stack) = "telemetry_loop_sleep" THEN "done" ELSE task
    /\ ret' = IF Head(stack) = "telemetry_loop_sleep" THEN NoReturn
              ELSE [op |-> "publish_now", val |-> FALSE]
    /\ NoPublish
    /\ UNCHANGED <<alive, settings, mq, tr, nextHandle, cur, poll, success,
                   willPending, dropped, running, discovery, game_state,
                   download_state, timers, registered>>

\* the poll of TelemetryCategories[ri] raises inside _publish_telemetry:
\* _telemetry_loop catches and logs it and goes to its sleep
\* (except Exception as e: decky.logger.error(...)); publish_now catches it
\* and returns {"success": False, "error": str(e)}
publish_telemetry_raises ==
    /\ alive /\ pc = "publish_telemetry" /\ ri >= 1
    /\ enabled_get(settings.enabled_sensors, TelemetryCategories[ri])
    /\ CollectorMayRaise(TelemetryCategories[ri])
    /\ ri' = 0
    /\ out' = <<>> /\ lossy' = TRUE
    /\ pc' = IF Head(stack) = "telemetry_loop_sleep" THEN "telemetry_loop_sleep" ELSE "idle"
    /\ stack' = Tail(stack)
    /\ ret' = IF Head(stack) = "telemetry_loop_sleep"
              THEN [op |-> "telemetry_loop_error", val |-> FALSE]
              ELSE [op |-> "publish_now", val |-> FALSE]
    /\ NoPublish
    /\ UNCHANGED <<alive, settings, mq, tr, nextHandle, cur, poll, success,
                   willPending, dropped, running, discovery, task, game_state,
                   download_state, timers, registered>>

\* ---------------------------------------------------- Plugin.publish_now
\* the frontend calls publish_now
publish_now ==
    /\ alive /\ pc = "idle" /\ running
    /\ out' = <<>> /\ lossy' = FALSE
    /\ IF mq["primary"].connected /\ publish_telemetry_guard
       THEN /\ pc' = "publish_telemetry" /\ stack' = <<"publish_now_return">>
            /\ ret' = NoReturn
       ELSE /\ ret' = [op |-> "publish_now", val |-> mq["primary"].connected]
            /\ UNCHANGED <<pc, stack>>
    /\ NoPublish
    /\ UNCHANGED <<alive, settings, mq, tr, nextHandle, cur, poll, success,
                   willPending, dropped, running, discovery, task, ri, game_state,
                   download_state, timers, registered>>

\* return {"success": True}
publish_now_return ==
    /\ alive /\ pc = "publish_now_return"
    /\ ret' = [op |-> "publish_now", val |-> TRUE]
    /\ pc' = "idle"
    /\ out' = <<>> /\ lossy' = FALSE
    /\ NoPublish
    /\ UNCHANGED <<alive, settings, mq, tr, nextHandle, cur, stack, poll, success,
                   willPending, dropped, running, discovery, task, ri, game_state,
                   download_state, timers, registered>>

\* -------------------------------------------------------- Plugin._unload
\* self.running = False; self.telemetry_task.cancel(); await self.telemetry_task
\* (the await suspends _unload until the loop has run the cancelled task)
unload ==
    /\ alive /\ pc = "idle" /\ running
    /\ running' = FALSE
    /\ task' = "cancelling"
    /\ NoPublish /\ ret' = NoReturn
    /\ UNCHANGED <<alive, settings, mq, tr, nextHandle, pc, cur, stack, poll, success,
                   willPending, dropped, discovery, ri, game_state, download_state,
                   timers, out, lossy, registered>>

\* the cancelled task has ended: _unload goes on with self.mqtt_client.disconnect()
unload_disconnect ==
    /\ alive /\ pc = "idle" /\ task = "cancelling"
    /\ task' = "done"
    /\ pc' = "d_check"
    /\ stack' = <<"unload_return">>
    /\ out' = <<>> /\ lossy' = FALSE
    /\ NoPublish /\ ret' = NoReturn
    /\ UNCHANGED <<alive, settings, mq, tr, nextHandle, cur, poll, success,
                   willPending, dropped, running, discovery, ri, game_state,
                   download_state, timers, registered>>

\* _unload returns; the plugin is gone
unload_return ==
    /\ alive /\ pc = "unload_return"
    /\ ret' = [op |-> "unload", val |-> TRUE]
    /\ pc' = "unloaded"
    /\ NoPublish
    /\ UNCHANGED <<plugin, registered, alive, settings, mq, tr, nextHandle, cur, stack,
                   poll, success, willPending, dropped>>


\* ---------------------------------------------------- Plugin.ingest_event
\* the delayed clears of download_completed that may be pending at once
MaxPendingClears == 1

\* the app ids, progress values and rates the frontend's events carry
AppIds == {5, 10}

ProgressValues == {40}

RateValues == {12}

\* await asyncio.sleep(DOWNLOAD_COMPLETION_DELAY_SECONDS)
DOWNLOAD_COMPLETION_DELAY_SECONDS == 1

Event(type, app_id, progress, rate) ==
    [type |-> type, app_id |-> app_id, progress |-> progress, rate |-> rate]

\* the events the frontend sends; a key an event does not carry reads as None
Events ==
    { Event(t, a, Absent, Absent) :
        t \in {"game_started", "game_stopped", "download_started"}, a \in AppIds }
    \cup { Event("download_progress", Absent, p, r) : p \in ProgressValues, r \in RateValues }
    \cup { Event(t, Absent, Absent, Absent) :
             t \in {"download_completed", "download_stopped", "system_suspending",
                    "system_resuming", "system_shutting_down", "unknown"} }

\* ingest_event returns (it catches every exception and returns None)
Ingested(event) == [op |-> "ingest_event", val |-> TRUE, event |-> event]

\* Plugin._get_game_state
get_game_state(g) ==
    [game_name |-> g.app_name, app_id |-> g.app_id, is_running |-> g.is_running]

\* Plugin._get_download_state
get_download_state(d) ==
    [downloading |-> d.downloading, download_progress |-> d.progress,
     download_rate_mbps |-> d.rate_mbps, download_app_name |-> Absent]

\* Plugin.get_telemetry: the three polls and the two event-driven states
get_telemetry(g, d) ==
    [battery |-> Snapshot("battery"), disk |-> Snapshot("disk"),
     network |-> Snapshot("network"),
     game |-> get_game_state(g), download |-> get_download_state(d)]

\* a state publish that looks at the connection only
publish_state_gate_ignores_enabled(cat) == mq["primary"].connected /\ discovery.set

\* _publish_game_state, _publish_download_state: the two early returns
publish_state_gate(cat) ==
    /\ mq["primary"].connected /\ discovery.set
    /\ enabled_get(settings.enabled_sensors, cat)

\* a game or download state published with retain=True
event_state_retained == TRUE

\* self.discovery.publish_state(cat, info, retain=False)
event_state_retain == FALSE

\* the history entry of a game state message
GameMessage(g) ==
    [kind |-> "state", cat |-> "game", retain |-> event_state_retain,
     data |-> get_game_state(g)]

\* the history entry of a download state message
DownloadMessage(d) ==
    [kind |-> "state", cat |-> "download", retain |-> event_state_retain,
     data |-> get_download_state(d)]

\* _publish_game_state, the game state being g
publish_game_state(log, lost, g, more) ==
    IF publish_state_gate("game")
    THEN PluginPublish(log, lost, GameMessage(g),
                       StateTopic(discovery.hostname, SensorType("game")),
                       get_game_state(g), 0, more)
    ELSE /\ NoPublish
         /\ out' = (IF more THEN log ELSE <<>>)
         /\ lossy' = (more /\ lost)

\* _publish_download_state, the download state being d
publish_download_state(log, lost, d, more) ==
    IF publish_state_gate("download")
    THEN PluginPublish(log, lost, DownloadMessage(d),
                       StateTopic(discovery.hostname, SensorType("download")),
                       get_download_state(d), 0, more)
    ELSE /\ NoPublish
         /\ out' = (IF more THEN log ELSE <<>>)
         /\ lossy' = (more /\ lost)

\* _handle_game_started forgetting the app id of the event
handle_game_started_keeps_app_id(g, event) == [g EXCEPT !.is_running = TRUE]

\* _handle_game_started: the new game state
handle_game_started(g, event) ==
    [is_running |-> TRUE, app_id |-> event.app_id, app_name |-> Absent]

\* _handle_game_stopped clearing the state only on a connected session
handle_game_stopped_if_connected(g, event) ==
    IF mq["primary"].connected
    THEN [is_running |-> FALSE, app_id |-> Absent, app_name |-> Absent]
    ELSE g

\* _handle_game_stopped: the new game state
handle_game_stopped(g, event) ==
    [is_running |-> FALSE, app_id |-> Absent, app_name |-> Absent]

\* _handle_download_started that keeps the download it already has
handle_download_started_first_wins(d, event) ==
    IF d.downloading THEN d
    ELSE [d EXCEPT !.downloading = TRUE, !.app_id = event.app_id,
                   !.progress = 0, !.rate_mbps = 0]

\* _handle_download_started: the new download state
handle_download_started(d, event) ==
    [d EXCEPT !.downloading = TRUE, !.app_id = event.app_id,
              !.progress = 0, !.rate_mbps = 0]

\* _handle_download_progress that waits for a download_started
handle_download_progress_needs_start(d, event) ==
    IF d.downloading
    THEN [d EXCEPT !.progress = event.progress, !.rate_mbps = event.rate]
    ELSE d

\* _handle_download_progress: the new download state
handle_download_progress(d, event) ==
    [d EXCEPT !.downloading = TRUE, !.progress = event.progress,
              !.rate_mbps = event.rate]

\* _handle_download_completed that clears the app id at once
handle_download_completed_clears(d, event) ==
    [d EXCEPT !.downloading = FALSE, !.progress = 100, !.rate_mbps = 0,
              !.app_id = Absent]

\* _handle_download_completed: the new download state, before the sleep
handle_download_completed(d, event) ==
    [d EXCEPT !.downloading = FALSE, !.progress = 100, !.rate_mbps = 0]

\* _handle_download_stopped that keeps the app id
handle_download_stopped_keeps_app_id(d, event) ==
    [d EXCEPT !.downloading = FALSE, !.progress = Absent, !.rate_mbps = Absent]

\* _handle_download_stopped: the new download state
handle_download_stopped(d, event) ==
    [downloading |-> FALSE, progress |-> Absent, rate_mbps |-> Absent,
     app_id |-> Absent]

\* _handle_system_shutting_down: the new game state
handle_system_shutting_down_game(g) ==
    [g EXCEPT !.is_running = FALSE, !.app_id = Absent]

\* _handle_system_shutting_down: the new download state
handle_system_shutting_down_download(d) == [d EXCEPT !.downloading = FALSE]

\* what the plugin state is left alone by an event handler
EventFrame ==
    UNCHANGED <<alive, settings, mq, tr, nextHandle, cur, stack, poll, success,
                willPending, dropped, running, discovery, task, ri, registered>>

\* ingest_event whose game handlers reset the download state
ingest_game_event_clears_download(event) ==
    /\ alive /\ pc = "idle" /\ running
    /\ event.type \in {"game_started", "game_stopped"}
    /\ game_state' = IF event.type = "game_started"
                     THEN handle_game_started(game_state, event)
                     ELSE handle_game_stopped(game_state, event)
    /\ download_state' = NoDownload
    /\ publish_game_state(<<>>, FALSE, game_state', FALSE)
    /\ ret' = Ingested(event)
    /\ EventFrame
    /\ UNCHANGED <<pc, timers>>

\* the frontend calls ingest_event with a game event
ingest_game_event(event) ==
    /\ alive /\ pc = "idle" /\ running
    /\ event.type \in {"game_started", "game_stopped"}
    /\ game_state' = IF event.type = "game_started"
                     THEN handle_game_started(game_state, event)
                     ELSE handle_game_stopped(game_state, event)
    /\ publish_game_state(<<>>, FALSE, game_state', FALSE)
    /\ ret' = Ingested(event)
    /\ EventFrame
    /\ UNCHANGED <<pc, download_state, timers>>

\* the frontend calls ingest_event with a download event other than
\* download_completed
ingest_download_event(event) ==
    /\ alive /\ pc = "idle" /\ running
    /\ event.type \in {"download_started", "download_progress", "download_stopped"}
    /\ download_state' =
          CASE event.type = "download_started" ->
                  handle_download_started(download_state, event)
            [] event.type = "download_progress" ->
                  handle_download_progress(download_state, event)
            [] event.type = "download_stopped" ->
                  handle_download_stopped(download_state, event)
    /\ publish_download_state(<<>>, FALSE, download_state', FALSE)
    /\ ret' = Ingested(event)
    /\ EventFrame
    /\ UNCHANGED <<pc, game_state, timers>>

\* the frontend calls ingest_event with download_completed: the handler runs
\* up to its await asyncio.sleep(DOWNLOAD_COMPLETION_DELAY_SECONDS)
ingest_download_completed(event) ==
    /\ alive /\ pc = "idle" /\ running
    /\ event.type = "download_completed"
    /\ timers < MaxPendingClears
    /\ download_state' = handle_download_completed(download_state, event)
    /\ publish_download_state(<<>>, FALSE, download_state', FALSE)
    /\ timers' = timers + 1
    /\ ret' = Ingested(event)
    /\ EventFrame
    /\ UNCHANGED <<pc, game_state>>

\* the sleep of a download_completed handler is over: it clears the state
download_completed_clear ==
    /\ alive /\ pc = "idle" /\ timers > 0
    /\ download_state' = [download_state EXCEPT !.progress = Absent,
                                                !.rate_mbps = Absent,
                                                !.app_id = Absent]
    /\ timers' = timers - 1
    /\ out' = <<>> /\ lossy' = FALSE
    /\ NoPublish
    /\ ret' = [op |-> "download_completed_clear", val |-> TRUE]
    /\ EventFrame
    /\ UNCHANGED <<pc, game_state>>

\* _handle_system_suspending finalizing what is not active, too
system_suspending_finalizes_always(active) == TRUE

\* if self.game_state.get("is_running"): / if self.download_state.get("downloading"):
system_suspending_finalizes(active) == active

\* _handle_system_suspending finalizing the game without publishing it
ingest_system_suspending_silent(event) ==
    /\ alive /\ pc = "idle" /\ running
    /\ event.type = "system_suspending"
    /\ game_state' = [game_state EXCEPT !.is_running = FALSE]
    /\ NoPublish /\ out' = <<>> /\ lossy' = FALSE
    /\ pc' = "system_suspending_download"
    /\ ret' = NoReturn
    /\ EventFrame
    /\ UNCHANGED <<download_state, timers>>

\* the frontend calls ingest_event with system_suspending: the handler up to
\* and with its game publish
ingest_system_suspending(event) ==
    /\ alive /\ pc = "idle" /\ running
    /\ event.type = "system_suspending"
    /\ IF system_suspending_finalizes(game_state.is_running)
       THEN /\ game_state' = [game_state EXCEPT !.is_running = FALSE]
            /\ publish_game_state(<<>>, FALSE, game_state', TRUE)
       ELSE /\ game_state' = game_state
            /\ NoPublish /\ out' = <<>> /\ lossy' = FALSE
    /\ pc' = "system_suspending_download"
    /\ ret' = NoReturn
    /\ EventFrame
    /\ UNCHANGED <<download_state, timers>>

\* _handle_system_suspending: its download part
system_suspending_download ==
    /\ alive /\ pc = "system_suspending_download"
    /\ IF system_suspending_finalizes(download_state.downloading)
       THEN /\ download_state' = [download_state EXCEPT !.downloading = FALSE]
            /\ publish_download_state(out, lossy, download_state', FALSE)
       ELSE /\ download_state' = download_state
            /\ NoPublish /\ out' = <<>> /\ lossy' = FALSE
    /\ pc' = "idle"
    /\ ret' = Ingested(Event("system_suspending", Absent, Absent, Absent))
    /\ EventFrame
    /\ UNCHANGED <<game_state, timers>>

\* the frontend calls ingest_event with system_shutting_down: the handler up
\* to and with its game publish
ingest_system_shutting_down(event) ==
    /\ alive /\ pc = "idle" /\ running
    /\ event.type = "system_shutting_down"
    /\ game_state' = handle_system_shutting_down_game(game_state)
    /\ download_state' = handle_system_shutting_down_download(download_state)
    /\ publish_game_state(<<>>, FALSE, game_state', TRUE)
    /\ pc' = "system_shutting_down_download"
    /\ ret' = NoReturn
    /\ EventFrame
    /\ UNCHANGED timers

\* _handle_system_shutting_down: await self._publish_download_state()
system_shutting_down_download ==
    /\ alive /\ pc = "system_shutting_down_download"
    /\ publish_download_state(out, lossy, download_state, FALSE)
    /\ pc' = "idle"
    /\ ret' = Ingested(Event("system_shutting_down", Absent, Absent, Absent))
    /\ EventFrame
    /\ UNCHANGED <<game_state, download_state, timers>>

\* ingest_event resetting the game state on an event it has no handler for
ingest_other_event_resets(event) ==
    /\ alive /\ pc = "idle" /\ running
    /\ event.type \in {"system_resuming", "unknown"}
    /\ game_state' = NoGame
    /\ out' = <<>> /\ lossy' = FALSE
    /\ NoPublish
    /\ ret' = Ingested(event)
    /\ EventFrame
    /\ UNCHANGED <<pc, download_state, timers>>

\* the frontend calls ingest_event with system_resuming or with an event of
\* a type ingest_event does not know
ingest_other_event(event) ==
    /\ alive /\ pc = "idle" /\ running
    /\ event.type \in {"system_resuming", "unknown"}
    /\ out' = <<>> /\ lossy' = FALSE
    /\ NoPublish
    /\ ret' = Ingested(event)
    /\ EventFrame
    /\ UNCHANGED <<pc, game_state, download_state, timers>>

\* ------------------------------------------------------- specification
HostStep ==
    \/ connect_check
    \/ connect_new
    \/ connect_raises
    \/ connect_opens
    \/ connect_poll
    \/ disconnect_check
    \/ disconnect_offline
    \/ disconnect_loop_stop
    \/ disconnect_teardown
    \/ test_connection_disconnect
    \/ test_connection_return

Next ==
    \/ \E hostname \in Hostnames : ConfigureCall(hostname)
    \/ ConnectCall
    \/ DisconnectCall
    \/ \E topic \in PublishTopics, payload \in PublishPayloads, retain \in BOOLEAN, qos \in {0, 1} :
          PublishCall(topic, payload, retain, qos)
    \/ PublishHeartbeatCall
    \/ test_connection_start
    \/ HostStep
    \/ \E h \in Handles : on_connect(h, 0)
    \/ \E h \in Handles : on_connect(h, 5)
    \/ \E h \in Handles : on_connect_publish(h)
    \/ \E h \in Handles : on_disconnect(h)
    \/ \E h \in Handles : TransportReconnect(h)
    \/ \E w \in willPending : BrokerPublishesWill(w)
    \/ Crash

Spec == Init /\ [][Next]_vars

\* the host thread keeps running, a callback that started finishes, and the
\* broker publishes a will it owes
FairSpec ==
    /\ Spec
    /\ WF_vars(HostStep)
    /\ WF_vars(\E h \in Handles : on_connect_publish(h))
    /\ WF_vars(\E w \in willPending : BrokerPublishesWill(w))

\* the plugin as Decky runs it: _main, the frontend's calls, the telemetry
\* loop and _unload on the asyncio loop, and the network threads
PluginHostStep ==
    \/ connect_check
    \/ connect_new
    \/ connect_raises
    \/ connect_opens
    \/ connect_poll
    \/ disconnect_check
    \/ disconnect_offline
    \/ disconnect_loop_stop
    \/ disconnect_teardown
    \/ connect_mqtt_connected
    \/ connect_mqtt_return
    \/ register_sensors
    \/ main_create_task
    \/ publish_telemetry
    \/ telemetry_loop_sleep
    \/ publish_now_return
    \/ unload_disconnect
    \/ unload_return

PluginNext ==
    \/ main
    \/ ConnectMqttCall
    \/ disconnect_mqtt
    \/ telemetry_loop
    \/ publish_now
    \/ disconnect_mqtt
    \/ unload
    \/ PluginHostStep
    \/ \E h \in Handles : on_connect(h, 0)
    \/ \E h \in Handles : on_connect(h, 5)
    \/ \E h \in Handles : on_connect_publish(h)
    \/ \E h \in Handles : on_disconnect(h)
    \/ \E h \in Handles : TransportReconnect(h)
    \/ \E w \in willPending : BrokerPublishesWill(w)

PluginSpec == Init /\ [][PluginNext]_vars

\* the plugin once _main has brought it up, on a broker that accepts its
\* connection: the frontend's events, the telemetry loop and the network
\* threads
EventHostStep ==
    \/ connect_check
    \/ connect_new
    \/ connect_raises
    \/ connect_opens
    \/ connect_poll
    \/ connect_mqtt_connected
    \/ connect_mqtt_return
    \/ register_sensors
    \/ main_create_task
    \/ publish_telemetry
    \/ telemetry_loop_sleep
    \/ publish_now_return
    \/ system_suspending_download
    \/ system_shutting_down_download

EventNext ==
    \/ main
    \/ telemetry_loop
    \/ publish_now
    \/ \E event \in Events : ingest_game_event(event)
    \/ \E event \in Events : ingest_download_event(event)
    \/ \E event \in Events : ingest_download_completed(event)
    \/ \E event \in Events : ingest_system_suspending(event)
    \/ \E event \in Events : ingest_system_shutting_down(event)
    \/ \E event \in Events : ingest_other_event(event)
    \/ download_completed_clear
    \/ EventHostStep
    \/ \E h \in Handles : on_connect(h, 0)
    \/ \E h \in Handles : on_connect_publish(h)
    \/ \E h \in Handles : on_disconnect(h)
    \/ \E h \in Handles : TransportReconnect(h)

EventSpec == Init /\ [][EventNext]_vars

\* the same, and the frontend may call disconnect_mqtt
EventDisconnectNext ==
    \/ EventNext
    \/ disconnect_mqtt
    \/ disconnect_check
    \/ disconnect_offline
    \/ disconnect_loop_stop
    \/ disconnect_teardown

EventDisconnectSpec == Init /\ [][EventDisconnectNext]_vars

\* ------------------------------------ Plugin.get_settings, save_settings
\* the passwords the frontend may send; MASK is what get_settings shows for
\* a stored password
MASK == "****"

Passwords == {"", "a", "b", MASK}

\* get_settings returning the stored password
get_settings_discloses(s, connected) ==
    [k \in DOMAIN s \cup {"connected"} |->
        IF k = "connected" THEN connected ELSE s[k]]

\* safe_settings = dict(self.settings); safe_settings["mqtt_password"] = ...;
\* safe_settings["connected"] = self.mqtt_client.connected
get_settings(s, connected) ==
    [k \in DOMAIN s \cup {"connected"} |->
        IF k = "connected" THEN connected
        ELSE IF k = "mqtt_password" THEN (IF s[k] # "" THEN MASK ELSE "")
        ELSE s[k]]

\* the frontend calls get_settings
GetSettingsCall ==
    /\ alive /\ pc = "idle" /\ running
    /\ ret' = [op |-> "get_settings", val |-> get_settings(settings, mq["primary"].connected)]
    /\ NoPublish
    /\ UNCHANGED <<plugin, registered, alive, settings, mq, tr, nextHandle, pc, cur, stack,
                   poll, success, willPending, dropped>>

\* the settings the frontend may send: it edits hostname, broker host and
\* password and sends the other keys back as it got them
SaveInputs ==
    { [settings EXCEPT !.hostname = h, !.mqtt_host = host, !.mqtt_password = pw] :
        h \in Hostnames, host \in MqttHosts, pw \in Passwords }

\* if settings.get("mqtt_password") == "****": keep the stored password
save_settings_password(new) ==
    [new EXCEPT !.mqtt_password = IF @ = MASK THEN settings.mqtt_password ELSE @]

\* the frontend calls save_settings: self.settings = settings;
\* _save_settings() (a file write whose failure is caught and logged);
\* if self.mqtt_client.connected: await self.disconnect_mqtt()
save_settings(new) ==
    /\ alive /\ pc = "idle" /\ running
    /\ new.mqtt_host # "" => nextHandle <= MaxHandles
    /\ settings' = save_settings_password(new)
    /\ IF mq["primary"].connected
       THEN pc' = "d_check" /\ stack' = <<"save_settings_connect">>
       ELSE pc' = "save_settings_connect" /\ stack' = <<>>
    /\ out' = <<>> /\ lossy' = FALSE
    /\ NoPublish /\ ret' = NoReturn
    /\ UNCHANGED <<alive, mq, tr, nextHandle, cur, poll, success, willPending, dropped,
                   running, discovery, task, ri, game_state, download_state, timers,
                   registered>>

\* if self.settings.get("mqtt_host"):
save_settings_connects == settings.mqtt_host # ""

\* if self.settings.get("mqtt_host"): await self.connect_mqtt()
save_settings_connect ==
    /\ alive /\ pc = "save_settings_connect"
    /\ IF save_settings_connects
       THEN connect_mqtt("save_settings_return")
       ELSE /\ pc' = "save_settings_return"
            /\ NoPublish /\ ret' = NoReturn
            /\ UNCHANGED <<mq, tr, nextHandle, cur, stack, poll, success, willPending,
                           dropped, discovery, task, ri, game_state, download_state,
                           timers, out, lossy, registered>>
    /\ UNCHANGED <<alive, settings, running>>

\* return True
save_settings_return ==
    /\ alive /\ pc = "save_settings_return"
    /\ ret' = [op |-> "save_settings", val |-> TRUE]
    /\ pc' = "idle"
    /\ stack' = <<>>
    /\ out' = <<>> /\ lossy' = FALSE
    /\ NoPublish
    /\ UNCHANGED <<alive, settings, mq, tr, nextHandle, cur, poll, success, willPending,
                   dropped, running, discovery, task, ri, game_state, download_state,
                   timers, registered>>

\* ------------------------------------------------- sanitize_identifier
\* the strings sanitize_identifier is applied to: every string of at most
\* MaxLen characters over upper and lower case letters, the three
\* characters it replaces, and the underscore
MaxLen == 3

Alphabet == {"S", "D", "d", " ", "-", ".", "_"}

Strings == UNION { [1..n -> Alphabet] : n \in 0..MaxLen }

SanitizeInit ==
    /\ alive = TRUE
    /\ \E h \in Strings : settings = _get_default_settings(h)
    /\ mq = [c \in Clients |-> NewMQTTClient]
    /\ tr = [h \in Handles |-> NoTransport]
    /\ nextHandle = 1
    /\ pc = "idle"
    /\ cur = "primary"
    /\ stack = <<>>
    /\ poll = 0
    /\ ret = NoReturn
    /\ success = FALSE
    /\ xmit = NoCall
    /\ retained = [t \in StatusTopics |-> "none"]
    /\ willPending = {}
    /\ dropped = {}
    /\ hist = [c \in Clients |-> NoHist]
    /\ PluginInit
    /\ registered = FALSE

\* sanitize_identifier(hostname), as configure and HomeAssistantDiscovery call it
SanitizeCall ==
    /\ ret.op = "none"
    /\ ret' = [op |-> "sanitize_identifier", val |-> sanitize_identifier(settings.hostname)]
    /\ NoPublish
    /\ UNCHANGED <<plugin, registered, alive, settings, mq, tr, nextHandle, pc, cur, stack,
                   poll, success, willPending, dropped>>

\* sanitize_identifier applied to its own result
SanitizeAgain ==
    /\ ret.op = "sanitize_identifier"
    /\ ret' = [op |-> "sanitize_identifier_twice", val |-> sanitize_identifier(ret.val)]
    /\ NoPublish
    /\ UNCHANGED <<plugin, registered, alive, settings, mq, tr, nextHandle, pc, cur, stack,
                   poll, success, willPending, dropped>>

SanitizeNext ==
    \/ SanitizeCall
    \/ SanitizeAgain

SanitizeSpec == SanitizeInit /\ [][SanitizeNext]_vars

\* the plugin and its settings page: _main, get_settings, save_settings and
\* the network threads
SettingsHostStep ==
    \/ connect_check
    \/ connect_new
    \/ connect_raises
    \/ connect_opens
    \/ connect_poll
    \/ disconnect_check
    \/ disconnect_offline
    \/ disconnect_loop_stop
    \/ disconnect_teardown
    \/ connect_mqtt_connected
    \/ connect_mqtt_return
    \/ register_sensors
    \/ main_create_task
    \/ save_settings_connect
    \/ save_settings_return

SettingsNext ==
    \/ main
    \/ GetSettingsCall
    \/ \E new \in SaveInputs : save_settings(new)
    \/ SettingsHostStep
    \/ \E h \in Handles : on_connect(h, 0)
    \/ \E h \in Handles : on_connect_publish(h)
    \/ \E h \in Handles : on_disconnect(h)

SettingsSpec == Init /\ [][SettingsNext]_vars


\* the plugin and its telemetry: _main, the telemetry loop, publish_now,
\* _unload and the network threads
TelemetryHostStep ==
    \/ connect_check
    \/ connect_new
    \/ connect_raises
    \/ connect_opens
    \/ connect_poll
    \/ disconnect_check
    \/ disconnect_offline
    \/ disconnect_loop_stop
    \/ disconnect_teardown
    \/ connect_mqtt_connected
    \/ connect_mqtt_return
    \/ register_sensors
    \/ main_create_task
    \/ publish_telemetry
    \/ publish_telemetry_raises
    \/ telemetry_loop_sleep
    \/ publish_now_return
    \/ unload_disconnect
    \/ unload_return

TelemetryNext ==
    \/ main
    \/ telemetry_loop
    \/ publish_now
    \/ unload
    \/ TelemetryHostStep
    \/ \E h \in Handles : on_connect(h, 0)
    \/ \E h \in Handles : on_connect_publish(h)
    \/ \E h \in Handles : on_disconnect(h)
    \/ \E h \in Handles : TransportReconnect(h)

\* the asyncio loop runs every coroutine that is ready: a method in progress
\* goes on, and the telemetry task is resumed when its sleep is over, however
\* often the frontend calls in between; a callback that started finishes
TelemetrySpec ==
    /\ Init /\ [][TelemetryNext]_vars
    /\ WF_vars(TelemetryHostStep)
    /\ SF_vars(telemetry_loop)
    /\ WF_vars(\E h \in Handles : on_connect_publish(h))

\* the same with the frontend's connect_mqtt and disconnect_mqtt and with the
\* telemetry loop
SettingsTelemetryNext ==
    \/ SettingsNext
    \/ ConnectMqttCall
    \/ disconnect_mqtt
    \/ telemetry_loop
    \/ publish_telemetry
    \/ telemetry_loop_sleep

SettingsTelemetrySpec == Init /\ [][SettingsTelemetryNext]_vars

\* ------------------------------------------------------------- claims
\* the transport clients of MQTTClient c that have a socket or a thread
LiveHandles(c) ==
    { h \in Handles : tr[h].owner = c /\ (tr[h].sock \in {"pending", "acked", "lost"} \/ tr[h].loop) }

\* the transport clients MQTTClient c ever created
HandlesOf(c) == { h \in Handles : tr[h].owner = c /\ tr[h].sock # "none" }

\* C1: when the process dies while a session that was opened with a non-empty
\* status topic is established, the broker eventually publishes "offline" on
\* that topic, so the retained presence does not stay "online"
C1_WillPublishedAfterCrash ==
    \A t \in StatusTopics : (t \in dropped) ~> (retained[t] = "offline")

C1_Witness ==
    \E t \in dropped : ~alive /\ retained[t] = "offline" /\ willPending = {}

\* C2: once the handshake of a transport client has been started, the last will
\* (status topic, "offline", QoS 1, retained) is registered on it; and "online"
\* is handed to the transport only with QoS 1 and retain, on an acknowledged
\* session whose owner has connected == true
C2_WillBeforeHandshakeOnlineAfterAck ==
    /\ \A h \in Handles :
          (tr[h].sock \in {"pending", "acked", "lost"} /\ tr[h].topic # NoTopic)
             => tr[h].will = [topic |-> tr[h].topic, payload |-> "offline",
                              qos |-> 1, retain |-> TRUE]
    /\ (xmit.kind = "publish" /\ xmit.payload = "online")
          => /\ xmit.qos = 1 /\ xmit.retain
             /\ tr[xmit.by].sock = "acked"
             /\ mq[tr[xmit.by].owner].connected
             /\ xmit.topic = mq[tr[xmit.by].owner].status_topic

C2_Witness ==
    /\ xmit.kind = "publish" /\ xmit.payload = "online" /\ xmit.outcome = "ok"
    /\ tr[xmit.by].cb = "idle"
    /\ tr[xmit.by].will.topic = xmit.topic

\* C3: when disconnect() has returned right after connect() (no other method
\* of the client in between, no transport publish failed, no connection lost),
\* connected is false
\* and the last presence message the session published is not "online"
C3_ConnectThenDisconnectEndsOffline ==
    \A c \in Clients :
       (ret.op = "disconnect" /\ cur = c /\ hist[c].clean)
          => (~mq[c].connected /\ hist[c].last # "online")

\* C4: connected is true only while the current transport client holds an
\* acknowledged session (acknowledged with reason code 0, not disconnected
\* since); it is false when disconnect() returns and when connect() returns false
C4_ConnectedOnlyWhileAcked ==
    /\ \A c \in Clients :
          mq[c].connected =>
             /\ mq[c].client # None
             /\ tr[mq[c].client].owner = c
             /\ tr[mq[c].client].sock = "acked"
    /\ ret.op = "disconnect" => ~mq[cur].connected
    /\ (ret.op = "connect" /\ ~ret.val) => ~mq[cur].connected

C4_Witness ==
    /\ mq["primary"].connected
    /\ \E h \in Handles : tr[h].owner = "primary" /\ tr[h].sock = "closed"

\* C5: no step of a test connection changes the primary MQTTClient, and a
\* message the test connection publishes does not change the presence retained
\* on the status topic of a connected primary session from "online"
C5_TestConnectionLeavesPrimaryAlone ==
    [][ /\ (cur = "test" /\ HostStep) => mq'["primary"] = mq["primary"]
        /\ ( /\ xmit'.kind = "publish"
             /\ tr[xmit'.by].owner = "test"
             /\ mq["primary"].connected
             /\ mq["primary"].status_topic # NoTopic
             /\ retained[mq["primary"].status_topic] = "online" )
           => retained'[mq["primary"].status_topic] = "online" ]_vars

\* C6: publish() and publish_heartbeat() called without a handle or with
\* connected == false return false and make no transport call, as does
\* publish_heartbeat() with an empty status topic; otherwise publish_heartbeat()
\* hands exactly ("online", QoS 1, retain) on the status topic to the transport;
\* and no transport call at all is made for a client that is not connected
C6_NoTrafficWhenNotConnected ==
    /\ ( /\ ret.op \in {"publish", "publish_heartbeat"}
         /\ (~mq["primary"].connected \/ mq["primary"].client = None) )
          => (~ret.val /\ xmit = NoCall)
    /\ (ret.op = "publish_heartbeat" /\ mq["primary"].status_topic = NoTopic)
          => (~ret.val /\ xmit = NoCall)
    /\ ( /\ ret.op = "publish_heartbeat"
         /\ mq["primary"].connected
         /\ mq["primary"].status_topic # NoTopic )
          => /\ xmit.kind = "publish"
             /\ xmit.topic = mq["primary"].status_topic
             /\ xmit.payload = "online" /\ xmit.qos = 1 /\ xmit.retain
    /\ xmit.kind = "publish"
          => /\ mq[tr[xmit.by].owner].connected
             /\ mq[tr[xmit.by].owner].client = xmit.by

C6_Witness ==
    /\ ret.op = "publish" /\ ~ret.val /\ xmit = NoCall
    /\ mq["primary"].client # None /\ ~mq["primary"].connected

\* C7: publish() returns true exactly when the transport accepted the packet
\* (false when the transport returned an error code or raised), and a publish
\* that returns false leaves connected, the handle and the status topic as
\* they were
C7_PublishFailureIsFalse ==
    [][ ret'.op = "publish"
          => /\ ret'.val <=> (xmit'.kind = "publish" /\ xmit'.outcome = "ok")
             /\ ~ret'.val => (mq' = mq /\ tr' = tr) ]_vars

C7_Witness ==
    ret.op = "publish" /\ ~ret.val /\ xmit.kind = "publish" /\ xmit.outcome = "raise"

\* C8: when disconnect() returns, connected is false and the handle is released,
\* also when the teardown raised; disconnect() on a client without a handle
\* makes no transport call and changes nothing
C8_DisconnectIdempotent ==
    [][ /\ ret'.op = "disconnect"
           => (~mq'[cur].connected /\ mq'[cur].client = None)
        /\ (disconnect_check /\ mq[cur].client = None)
           => /\ ret'.op = "disconnect"
              /\ xmit' = NoCall
              /\ mq' = mq /\ tr' = tr /\ retained' = retained
              /\ willPending' = willPending ]_vars

C8_Witness ==
    /\ ret.op = "disconnect" /\ pc = "idle"
    /\ HandlesOf("primary") # {}
    /\ LiveHandles("primary") = {}
    /\ willPending # {}

\* C9: connect() goes round its wait loop at most 10 times and returns (unless
\* the process dies first), and the value it returns is the connected flag as
\* it is when connect() returns
C9_ConnectTerminates ==
    /\ [](poll <= POLL_ATTEMPTS)
    /\ [](ret.op = "connect" => ret.val = mq[cur].connected)
    /\ (pc = "c_check") ~> (ret.op = "connect" \/ ~alive)

C9_Witness ==
    /\ ret.op = "connect" /\ ~ret.val
    /\ mq[cur].client # None /\ tr[mq[cur].client].sock = "pending"

\* C10: an MQTTClient has at most one transport client with a socket or a
\* thread, and it is the one it created last; every transport call is made on
\* that one, so nothing is published for an old session once the next exists
C10_OneLiveTransport ==
    \A c \in Clients :
       /\ \A h \in LiveHandles(c) : \A g \in HandlesOf(c) : g <= h
       /\ (xmit.kind = "publish" /\ tr[xmit.by].owner = c)
             => \A g \in HandlesOf(c) : g <= xmit.by

C10_Witness ==
    /\ Cardinality(HandlesOf("primary")) = 2
    /\ Cardinality(LiveHandles("primary")) = 1
    /\ xmit.kind = "publish" /\ xmit.payload = "online" /\ xmit.outcome = "ok"

\* ---------------------------------------------------------------------
\* helpers of the plugin's properties
Cats(log) == [i \in 1..Len(log) |-> log[i].cat]

IsPrefix(a, b) == Len(a) <= Len(b) /\ a = SubSeq(b, 1, Len(a))

\* the flag of a category is enabled; a missing flag counts as enabled
FlagOn(cat) == settings.enabled_sensors[cat] \in {"true", "missing"}

SanitizedHostnames == { sanitize_identifier(h) : h \in Hostnames }

\* the discovery topics of the descriptors of a category
DiscoveryTopicsOf(cat) ==
    { DiscoveryTopic(Descriptors(cat)[i].component, h, Descriptors(cat)[i].object_id) :
        i \in DOMAIN Descriptors(cat), h \in SanitizedHostnames }

\* the telemetry topics of a category
StateTopicsOf(cat) == { StateTopic(h, SensorType(cat)) : h \in SanitizedHostnames }

\* the descriptor topics and the telemetry topics, by category
DiscoveryTopics == [cat \in CategorySet \cup {"status"} |-> DiscoveryTopicsOf(cat)]

StateTopics == [cat \in CategorySet |-> StateTopicsOf(cat)]

\* the categories a registration run covers, in the order the specification gives
RegistrationOrder == <<"status", "battery", "disk", "network", "game", "download">>

ExpectedRegistration ==
    SelectSeq(RegistrationOrder, LAMBDA cat : cat = "status" \/ FlagOn(cat))

\* C11: a registration run that loses no publish has published, at every
\* point, a prefix of status, battery, disk, network, game, download without
\* the categories whose flag is off, and all of it when it ends; no
\* descriptor of a category whose flag is off is ever published
C11_RegistrationOrderAndGating ==
    /\ (pc = "register_sensors" /\ ~lossy) => IsPrefix(Cats(out), ExpectedRegistration)
    /\ (pc = "connect_mqtt_return" /\ success /\ ~lossy)
          => Cats(out) = ExpectedRegistration
    /\ \A cat \in CategorySet :
          (xmit.kind = "publish" /\ xmit.topic \in DiscoveryTopics[cat]) => FlagOn(cat)

\* a run has ended without loss under flags of which one is missing (game)
\* and others are off
C11_Witness ==
    /\ pc = "connect_mqtt_return" /\ success /\ ~lossy
    /\ settings.enabled_sensors["game"] = "missing"
    /\ settings.enabled_sensors["battery"] = "false"
    /\ Cats(out) = <<"status", "disk", "game">>

\* C12: whenever the host is at rest with the primary session connected and
\* no callback in progress, a registration run has finished since the
\* connected flag last went from false to true
C12_RegistrationOnEveryConnect ==
    (alive /\ pc = "idle" /\ mq["primary"].connected
       /\ \A h \in Handles : tr[h].cb = "idle")
       => registered

\* the registration plan without the descriptors of one category
WithoutCategory(plan, cat) == SelectSeq(plan, LAMBDA d : d.cat # cat)

\* C13: while the flag of a category is off no descriptor and no state
\* message of that category is published, and what a registration run
\* publishes for the other categories is what it publishes with the flag on
C13_DisabledCategoryIsSilent ==
    \A cat \in CategorySet :
       settings.enabled_sensors[cat] = "false"
          => /\ ~(xmit.kind = "publish"
                   /\ xmit.topic \in DiscoveryTopics[cat] \cup StateTopics[cat])
             /\ (pc = "register_sensors" =>
                   WithoutCategory(RegistrationPlan(settings.enabled_sensors,
                                                    mq["primary"].status_topic), cat)
                   = WithoutCategory(RegistrationPlan(
                                        [settings.enabled_sensors EXCEPT ![cat] = "true"],
                                        mq["primary"].status_topic), cat))

\* a game event was ingested on a connected session with the game flag off,
\* and nothing was published
C13_Witness ==
    /\ ret.op = "ingest_event" /\ ret.event.type = "game_started"
    /\ settings.enabled_sensors["game"] = "false"
    /\ mq["primary"].connected /\ discovery.set
    /\ tr[mq["primary"].client].sock = "acked"
    /\ game_state.is_running
    /\ xmit = NoCall

\* the steps of ingest_event that call _publish_game_state
GameEventStep ==
    /\ pc = "idle"
    /\ \/ ret'.op = "ingest_event" /\ ret'.event.type \in {"game_started", "game_stopped"}
       \/ pc' \in {"system_suspending_download", "system_shutting_down_download"}

\* the steps of ingest_event that call _publish_download_state
DownloadEventStep ==
    \/ /\ pc = "idle"
       /\ ret'.op = "ingest_event"
       /\ ret'.event.type \in {"download_started", "download_progress",
                               "download_completed", "download_stopped"}
    \/ pc \in {"system_suspending_download", "system_shutting_down_download"}

\* the game state after a game event
GameAfter(event) ==
    IF event.type = "game_started"
    THEN [is_running |-> TRUE, app_id |-> event.app_id, app_name |-> Absent]
    ELSE [is_running |-> FALSE, app_id |-> Absent, app_name |-> Absent]

\* C14: a game or download message is published only by the step of an
\* ingested event that publishes that sub-state (never later, by a tick, a
\* registration or a reconnect); a game or download event whose publish is
\* skipped still changes the state, and emits nothing
C14_SkippedPublishIsNotRetried ==
    [][ /\ (xmit'.kind = "publish" /\ xmit'.topic \in StateTopics["game"])
           => GameEventStep
        /\ (xmit'.kind = "publish" /\ xmit'.topic \in StateTopics["download"])
           => DownloadEventStep
        /\ ( /\ pc = "idle" /\ ret'.op = "ingest_event"
             /\ ret'.event.type \in {"game_started", "game_stopped"}
             /\ ~(mq["primary"].connected /\ FlagOn("game")) )
           => (xmit' = NoCall /\ game_state' = GameAfter(ret'.event))
        /\ ( /\ pc = "idle" /\ ret'.op = "ingest_event"
             /\ ret'.event.type \in {"download_started", "download_progress",
                                     "download_completed", "download_stopped"}
             /\ ~(mq["primary"].connected /\ FlagOn("download")) )
           => /\ xmit' = NoCall
              /\ download_state'.downloading
                    = (ret'.event.type \in {"download_started", "download_progress"})
      ]_vars

\* a game_started was ingested after the session, once registered, lost its
\* connection: the state changed and nothing was published
C14_Witness ==
    /\ ret.op = "ingest_event" /\ ret.event.type = "game_started"
    /\ game_state.is_running /\ game_state.app_id = ret.event.app_id
    /\ FlagOn("game") /\ discovery.set
    /\ ~mq["primary"].connected
    /\ xmit = NoCall

C16_DownloadCompletion ==
    [][ /\ (pc = "idle" /\ ret'.op = "ingest_event"
              /\ ret'.event.type = "download_started")
           => download_state' = [downloading |-> TRUE, progress |-> 0, rate_mbps |-> 0,
                                 app_id |-> ret'.event.app_id]
        /\ (pc = "idle" /\ ret'.op = "ingest_event"
              /\ ret'.event.type = "download_progress")
           => download_state'.app_id = download_state.app_id
        /\ (pc = "idle" /\ ret'.op = "ingest_event"
              /\ ret'.event.type = "download_completed")
           => /\ download_state' = [downloading |-> FALSE, progress |-> 100,
                                    rate_mbps |-> 0, app_id |-> download_state.app_id]
              /\ (mq["primary"].connected /\ discovery.set /\ FlagOn("download"))
                    => /\ xmit'.kind = "publish"
                       /\ xmit'.topic \in StateTopics["download"]
                       /\ xmit'.payload =
                             [downloading |-> FALSE, download_progress |-> 100,
                              download_rate_mbps |-> 0, download_app_name |-> Absent]
        /\ ret'.op = "download_completed_clear"
           => /\ download_state' = [downloading |-> download_state.downloading,
                                    progress |-> Absent, rate_mbps |-> Absent,
                                    app_id |-> Absent]
              /\ xmit' = NoCall
      ]_vars

\* download_completed was ingested for the download of app 5 that had been
\* started, and its message went out; the clear is pending
C16_Witness ==
    /\ ret.op = "ingest_event" /\ ret.event.type = "download_completed"
    /\ download_state.app_id = 5 /\ download_state.progress = 100
    /\ ~download_state.downloading
    /\ timers = 1
    /\ xmit.kind = "publish" /\ xmit.outcome = "ok"

\* C17: system_shutting_down ingested while a game is running and a download
\* is active leaves the game state and the download state cleared
C17_ShutdownClearsBoth ==
    [][ ( /\ pc = "idle" /\ pc' = "system_shutting_down_download"
          /\ game_state.is_running /\ download_state.downloading )
        => /\ game_state' = NoGame
           /\ download_state' = NoDownload
      ]_vars

AllDiscoveryTopics ==
    UNION { DiscoveryTopics[cat] : cat \in CategorySet \cup {"status"} }

\* C18: every message on the battery, disk or network telemetry topic is
\* retained, none on the game or download telemetry topic is, and every
\* descriptor and every presence message is retained
C18_RetainByKind ==
    xmit.kind = "publish"
       => /\ \A cat \in {"battery", "disk", "network"} :
                xmit.topic \in StateTopics[cat] => xmit.retain
          /\ \A cat \in {"game", "download"} :
                xmit.topic \in StateTopics[cat] => ~xmit.retain
          /\ xmit.topic \in AllDiscoveryTopics => xmit.retain
          /\ xmit.topic \in StatusTopics => xmit.retain

\* a download message went out, not retained
C18_Witness ==
    /\ xmit.kind = "publish" /\ xmit.outcome = "ok"
    /\ xmit.topic \in StateTopics["download"]
    /\ ~xmit.retain

\* what a tick publishes after the heartbeat, in the order the specification gives
ExpectedTick ==
    SelectSeq(<<"battery", "disk", "network">>, LAMBDA cat : FlagOn(cat))

C20_OfflineIsLastMessage ==
    [][ ( /\ task = "done"
          /\ xmit.kind = "publish" /\ xmit.outcome = "ok"
          /\ xmit.topic \in StatusTopics /\ xmit.payload = "offline" )
        => xmit'.kind # "publish"
      ]_vars

\* C21: in the state save_settings returns in with a configuration without
\* a broker host the primary session is not connected, and the step that
\* follows does not make it connected
C21_SaveWithoutHostStaysDisconnected ==
    [][ (ret.op = "save_settings" /\ settings.mqtt_host = "")
        => (~mq["primary"].connected /\ ~mq'["primary"].connected)
      ]_vars

\* C22: what get_settings returns does not depend on which non-empty
\* password is stored; its password field is the mask for a stored
\* password and empty without one, its other fields are the stored ones; the
\* call leaves the stored settings as they are
C22_GetSettingsHidesPassword ==
    /\ [](\A p1, p2 \in Passwords \ {""} :
            get_settings([settings EXCEPT !.mqtt_password = p1], mq["primary"].connected)
            = get_settings([settings EXCEPT !.mqtt_password = p2], mq["primary"].connected))
    /\ [](ret.op = "get_settings"
            => /\ ret.val["mqtt_password"]
                     = (IF settings.mqtt_password = "" THEN "" ELSE "****")
               /\ \A k \in DOMAIN settings \ {"mqtt_password"} : ret.val[k] = settings[k]
               /\ ret.val["connected"] = mq["primary"].connected)
    /\ [][ret'.op = "get_settings" => settings' = settings]_vars

\* get_settings was called with password "b" stored, and returned the mask
C22_Witness ==
    /\ ret.op = "get_settings"
    /\ settings.mqtt_password = "b"
    /\ ret.val["mqtt_password"] = "****"

\* a string lowercased, with space, hyphen and dot turned into underscores
Sanitized(h) ==
    [i \in 1..Len(h) |->
        IF h[i] \in {" ", "-", "."} THEN "_"
        ELSE IF h[i] = "S" THEN "s"
        ELSE IF h[i] = "D" THEN "d"
        ELSE h[i]]

\* C23: sanitize_identifier(h) is h lowercased with every space, hyphen and
\* dot replaced by an underscore, it holds no upper case letter, space,
\* hyphen or dot, and sanitizing it again gives it back
C23_SanitizeIdempotent ==
    /\ ret.op = "sanitize_identifier"
         => /\ ret.val = Sanitized(settings.hostname)
            /\ \A i \in 1..Len(ret.val) : ret.val[i] \notin {"S", "D", " ", "-", "."}
    /\ ret.op = "sanitize_identifier_twice"
         => ret.val = sanitize_identifier(settings.hostname)

\* "S-." was sanitized twice, to "s__"
C23_Witness ==
    /\ ret.op = "sanitize_identifier_twice"
    /\ settings.hostname = <<"S", "-", ".">>
    /\ ret.val = <<"s", "_", "_">>

\* the descriptors a registration run publishes under the configuration in
\* force
CurrentPlan == RegistrationPlan(settings.enabled_sensors, mq["primary"].status_topic)

\* C24: the i-th descriptor a registration run publishes is on the topic and
\* carries the unique id and payload that the configuration and i determine,
\* so a second run under the same configuration repeats the first; no two
\* descriptors of the run that starts share a unique id or a topic
C24_RegistrationIdempotent ==
    /\ []((pc = "register_sensors" /\ ri = 1)
            => \A i, j \in DOMAIN CurrentPlan :
                 i # j => /\ UniqueId(discovery.hostname, CurrentPlan[i].object_id)
                             # UniqueId(discovery.hostname, CurrentPlan[j].object_id)
                          /\ DiscoveryTopic(CurrentPlan[i].component, discovery.hostname,
                                            CurrentPlan[i].object_id)
                             # DiscoveryTopic(CurrentPlan[j].component, discovery.hostname,
                                              CurrentPlan[j].object_id))
    /\ [][ (pc = "register_sensors" /\ xmit'.kind = "publish"
              /\ xmit'.topic \in AllDiscoveryTopics)
           => /\ xmit'.topic = DiscoveryTopic(CurrentPlan[ri].component,
                                              sanitize_identifier(settings.hostname),
                                              CurrentPlan[ri].object_id)
              /\ xmit'.payload.unique_id
                    = UniqueId(sanitize_identifier(settings.hostname),
                               CurrentPlan[ri].object_id)
              /\ xmit'.payload.availability_topic = mq["primary"].status_topic
              /\ xmit'.retain /\ xmit'.qos = 0
         ]_vars

\* a first registration run has ended (the discovery publisher exists) and
\* connect_mqtt, under the same settings and on a second transport client, is
\* about to start the second
C24_Witness ==
    /\ pc = "connect_mqtt_connected" /\ success
    /\ discovery.set
    /\ task = "sleeping"
    /\ mq["primary"].client = 2 /\ mq["primary"].connected
    /\ Len(CurrentPlan) > 1

\* C25: a delayed clear that comes due while a download is active (a
\* download_started or download_progress was ingested since the completion)
\* leaves the download state as it is
C25_ClearCancelledByNewerEvent ==
    [][ (ret'.op = "download_completed_clear" /\ download_state.downloading)
        => download_state' = download_state
      ]_vars

\* the session is connected, a discovery publisher exists and the flag of
\* the category is on: a state publish of the category is not skipped
Gate(cat) == mq["primary"].connected /\ discovery.set /\ FlagOn(cat)

\* a step of ingest_event that handles an event of one of these types in one go
Ingests(types) ==
    /\ pc = "idle" /\ pc' = "idle"
    /\ ret'.op = "ingest_event"
    /\ ret'.event.type \in types

\* C26: game_started{j} while a game runs yields is_running, app_id j;
\* download_started{j} while a download is active yields downloading, app_id
\* j, progress 0, rate 0; game_stopped while no game runs yields the stopped
\* state; each returns normally and makes its publish call
C26_LastWriterWins ==
    [][ /\ (Ingests({"game_started"}) /\ game_state.is_running)
           => /\ game_state' = [is_running |-> TRUE, app_id |-> ret'.event.app_id,
                                app_name |-> Absent]
              /\ ret'.val
              /\ Gate("game") => /\ xmit'.kind = "publish"
                                 /\ xmit'.topic \in StateTopics["game"]
                                 /\ xmit'.payload.app_id = ret'.event.app_id
        /\ (Ingests({"download_started"}) /\ download_state.downloading)
           => /\ download_state' = [downloading |-> TRUE, progress |-> 0, rate_mbps |-> 0,
                                    app_id |-> ret'.event.app_id]
              /\ ret'.val
              /\ Gate("download") => /\ xmit'.kind = "publish"
                                     /\ xmit'.topic \in StateTopics["download"]
                                     /\ xmit'.payload.download_progress = 0
        /\ (Ingests({"game_stopped"}) /\ ~game_state.is_running)
           => /\ game_state' = NoGame
              /\ ret'.val
              /\ Gate("game") => /\ xmit'.kind = "publish"
                                 /\ xmit'.topic \in StateTopics["game"]
                                 /\ ~xmit'.payload.is_running
      ]_vars

\* the download of app 5 is active at progress 40 on a connected session,
\* and download_started{app_id=10} is ingested: app 10 at progress 0 is
\* recorded and published
C26_Witness ==
    /\ download_state = [downloading |-> TRUE, progress |-> 40, rate_mbps |-> 12,
                         app_id |-> 5]
    /\ Gate("download")
    /\ ENABLED ( /\ ingest_download_event(Event("download_started", 10, Absent, Absent))
                 /\ download_state'.app_id = 10 /\ download_state'.progress = 0
                 /\ xmit'.kind = "publish" /\ xmit'.outcome = "ok" )

\* C27: from every download state download_progress{p, r} yields
\* downloading, progress p, rate r and the app id there was, and makes one
\* publish call carrying them
C27_ProgressImpliesDownloading ==
    [][ Ingests({"download_progress"})
        => /\ download_state' = [downloading |-> TRUE,
                                 progress |-> ret'.event.progress,
                                 rate_mbps |-> ret'.event.rate,
                                 app_id |-> download_state.app_id]
           /\ ret'.val
           /\ Gate("download")
                => /\ xmit'.kind = "publish"
                   /\ xmit'.topic \in StateTopics["download"]
                   /\ xmit'.payload = [downloading |-> TRUE,
                                       download_progress |-> ret'.event.progress,
                                       download_rate_mbps |-> ret'.event.rate,
                                       download_app_name |-> Absent]
      ]_vars

\* no download was ever recorded, the session is connected, and
\* download_progress{40, 12} is ingested: an active download is recorded
\* and published
C27_Witness ==
    /\ download_state = NoDownload /\ timers = 0
    /\ Gate("download")
    /\ ENABLED ( /\ ingest_download_event(Event("download_progress", Absent, 40, 12))
                 /\ download_state'.downloading /\ download_state'.progress = 40
                 /\ download_state'.app_id = Absent
                 /\ xmit'.kind = "publish" /\ xmit'.outcome = "ok" )

\* C28: from every download state download_stopped yields the cleared state
\* and makes one publish call carrying it
C28_StoppedClears ==
    [][ Ingests({"download_stopped"})
        => /\ download_state' = NoDownload
           /\ ret'.val
           /\ Gate("download")
                => /\ xmit'.kind = "publish"
                   /\ xmit'.topic \in StateTopics["download"]
                   /\ xmit'.payload = [downloading |-> FALSE,
                                       download_progress |-> Absent,
                                       download_rate_mbps |-> Absent,
                                       download_app_name |-> Absent]
      ]_vars

\* the download of app 5 is active on a connected session and
\* download_stopped is ingested: the cleared state is recorded and published
C28_Witness ==
    /\ download_state.downloading /\ download_state.app_id = 5
    /\ download_state.progress = 40
    /\ Gate("download")
    /\ ENABLED ( /\ ingest_download_event(Event("download_stopped", Absent, Absent, Absent))
                 /\ download_state' = NoDownload
                 /\ xmit'.kind = "publish" /\ xmit'.outcome = "ok" )

\* C29: the first step of system_suspending clears is_running and calls the
\* game publish if and only if a game was running, its second step clears
\* downloading and calls the download publish if and only if a download was
\* active; nothing else of the two states changes, and with neither active
\* no state changes and no message is emitted
C29_SuspendFinalizesActive ==
    [][ /\ (pc = "idle" /\ pc' = "system_suspending_download")
           => /\ game_state' = [game_state EXCEPT !.is_running = FALSE]
              /\ download_state' = download_state
              /\ xmit'.kind = "publish"
                    => (game_state.is_running /\ xmit'.topic \in StateTopics["game"])
              /\ (game_state.is_running /\ Gate("game"))
                    => (xmit'.kind = "publish" /\ ~xmit'.payload.is_running)
        /\ (pc = "system_suspending_download" /\ pc' = "idle")
           => /\ download_state' = [download_state EXCEPT !.downloading = FALSE]
              /\ game_state' = game_state
              /\ ret'.val
              /\ xmit'.kind = "publish"
                    => (download_state.downloading
                          /\ xmit'.topic \in StateTopics["download"])
              /\ (download_state.downloading /\ Gate("download"))
                    => (xmit'.kind = "publish" /\ ~xmit'.payload.downloading)
      ]_vars

\* system_suspending has finalized and published the game that was running
\* and is about to finalize the download, which is active
C29_Witness ==
    /\ pc = "system_suspending_download"
    /\ ~game_state.is_running
    /\ Len(out) = 1 /\ out[1].cat = "game"
    /\ xmit.kind = "publish" /\ xmit.outcome = "ok"
    /\ download_state.downloading
    /\ Gate("download")

C31_GameDownloadIndependent ==
    [][ /\ Ingests({"game_started", "game_stopped"})
           => /\ download_state' = download_state
              /\ timers' = timers
              /\ ~(xmit'.kind = "publish" /\ xmit'.topic \in StateTopics["download"])
        /\ ( \/ Ingests({"download_started", "download_progress",
                         "download_completed", "download_stopped"})
             \/ ret'.op = "download_completed_clear" )
           => /\ game_state' = game_state
              /\ ~(xmit'.kind = "publish" /\ xmit'.topic \in StateTopics["game"])
      ]_vars

\* game_started was ingested and published while the download of app 5 was
\* active at progress 40, and the download is as it was
C31_Witness ==
    /\ ret.op = "ingest_event" /\ ret.event.type = "game_started"
    /\ ret.event.app_id = 10
    /\ xmit.kind = "publish" /\ xmit.outcome = "ok"
    /\ xmit.topic \in StateTopics["game"]
    /\ download_state = [downloading |-> TRUE, progress |-> 40, rate_mbps |-> 12,
                         app_id |-> 5]

\* a tick of the telemetry loop is in progress
InTick ==
    \/ pc = "publish_telemetry" /\ Head(stack) = "telemetry_loop_sleep"
    \/ pc = "telemetry_loop_sleep"

\* C32: while running is true the telemetry task stays alive, whatever a
\* tick does; whenever the loop is at its sleep with running true it
\* eventually goes through another tick to the next sleep (or running becomes
\* false), and a tick in progress, also one that raises, reaches the sleep
C32_LoopSurvivesTick ==
    /\ [][ (running /\ task = "sleeping" /\ running') => task' = "sleeping" ]_vars
    /\ (pc = "idle" /\ running /\ task = "sleeping")
          ~> (pc = "telemetry_loop_sleep" \/ ~running)
    /\ InTick ~> (pc = "idle" /\ task = "sleeping")

\* the battery poll of a tick raised: the loop is at its sleep, still running
C32_Witness ==
    /\ pc = "telemetry_loop_sleep"
    /\ ret.op = "telemetry_loop_error"
    /\ running /\ task = "sleeping"
    /\ mq["primary"].connected

\* a step of a network thread (a transport callback or the transport's own
\* reconnect): the host thread stays where it is and a transport client
\* changes
CallbackStep == pc' = pc /\ tr' # tr

\* C33: a step of a network thread changes nothing of the plugin but the
\* connected flag: the game and download records, the pending clears and the
\* position of the method in progress stay; what an ingested event makes of
\* the records does not depend on the flag; ingest_event and disconnect()
\* return normally, disconnect() with the session torn down; and a state
\* publish of a tick reaches the transport exactly when the flag is true at
\* that publish
C33_FlagRaceIsBenign ==
    [][ /\ CallbackStep
           => /\ game_state' = game_state /\ download_state' = download_state
              /\ timers' = timers
              /\ stack' = stack /\ ri' = ri /\ cur' = cur
              /\ running' = running /\ task' = task /\ discovery' = discovery
              /\ settings' = settings
              /\ \A c \in Clients : mq'[c] = [mq[c] EXCEPT !.connected = mq'[c].connected]
        /\ Ingests({"game_started", "game_stopped"})
           => game_state' = GameAfter(ret'.event)
        /\ Ingests({"download_started"})
           => download_state' = [downloading |-> TRUE, progress |-> 0, rate_mbps |-> 0,
                                 app_id |-> ret'.event.app_id]
        /\ Ingests({"download_progress"})
           => download_state' = [downloading |-> TRUE, progress |-> ret'.event.progress,
                                 rate_mbps |-> ret'.event.rate,
                                 app_id |-> download_state.app_id]
        /\ Ingests({"download_completed"})
           => download_state' = [downloading |-> FALSE, progress |-> 100, rate_mbps |-> 0,
                                 app_id |-> download_state.app_id]
        /\ Ingests({"download_stopped"})
           => download_state' = [downloading |-> FALSE, progress |-> Absent,
                                 rate_mbps |-> Absent, app_id |-> Absent]
        /\ ret'.op = "ingest_event" => ret'.val
        /\ ret'.op = "disconnect"
           => (ret'.val /\ ~mq'[cur].connected /\ mq'[cur].client = None)
        /\ (pc = "publish_telemetry" /\ ri >= 1 /\ ri' # ri
              /\ FlagOn(TelemetryCategories[ri]))
           => (xmit'.kind = "publish" <=> mq["primary"].connected)
      ]_vars

\* the connection was lost in the middle of a tick, while a game was
\* running: the tick goes on with the flag false and its publishes skipped
C33_Witness ==
    /\ pc = "publish_telemetry" /\ ri = 2
    /\ FlagOn("battery") /\ FlagOn("disk")
    /\ ~mq["primary"].connected
    /\ tr[mq["primary"].client].sock = "lost"
    /\ lossy /\ xmit = NoCall
    /\ game_state.is_running

\* C34: publish_now returns success=true only after a telemetry cycle has
\* run, one that lost no publish having emitted the heartbeat and then the
\* battery, disk and network messages whose flag is on; called on a session
\* that is not connected it returns success=false, and the call itself
\* emits nothing
C34_PublishNowRunsOneCycle ==
    [][ /\ (ret'.op = "publish_now" /\ ret'.val)
           => /\ pc = "publish_now_return"
              /\ ~lossy => Cats(out) = <<"status">> \o ExpectedTick
        /\ (ret'.op = "publish_now" /\ pc = "idle")
           => /\ xmit' = NoCall
              /\ ~mq["primary"].connected => ~ret'.val
      ]_vars

\* C35: a descriptor published while the status topic is empty is not the
\* status sensor's and carries no availability block, and a run that loses
\* no publish then covers battery, disk, network, game, download without the
\* categories whose flag is off; a descriptor published while the status
\* topic is not empty carries it as availability_topic, with the payloads
\* "online" and "offline"
C35_RegistrationWithoutStatusTopic ==
    /\ []((pc = "connect_mqtt_return" /\ success /\ ~lossy
             /\ mq["primary"].status_topic = NoTopic)
            => Cats(out) = SelectSeq(Categories, LAMBDA cat : FlagOn(cat)))
    /\ [][ (pc = "register_sensors" /\ xmit'.kind = "publish"
              /\ xmit'.topic \in AllDiscoveryTopics)
           => IF mq["primary"].status_topic = NoTopic
              THEN /\ xmit'.topic \notin DiscoveryTopics["status"]
                   /\ xmit'.payload.availability_topic = NoTopic
                   /\ xmit'.payload.payload_available = ""
                   /\ xmit'.payload.payload_not_available = ""
              ELSE /\ xmit'.payload.availability_topic = mq["primary"].status_topic
                   /\ xmit'.payload.payload_available = "online"
                   /\ xmit'.payload.payload_not_available = "offline"
         ]_vars

\* a registration run has ended without loss on a session that never had a
\* hostname, with every flag on: the five categories and no status sensor
C35_Witness ==
    /\ pc = "connect_mqtt_return" /\ success /\ ~lossy
    /\ mq["primary"].status_topic = NoTopic
    /\ mq["primary"].connected
    /\ Cats(out) = Categories

\* C36: the step that follows the return of a connect() that failed leaves
\* the session not connected and publishes nothing for it
C36_FailedConnectStaysDisconnected ==
    [][ (ret.op = "connect" /\ ~ret.val)
        => /\ ~mq'[cur].connected
           /\ ~(xmit'.kind = "publish" /\ tr'[xmit'.by].owner = cur)
      ]_vars

\* C37: a message on a telemetry topic is on the topic of the hostname that
\* the primary session's status topic is built from (both without a
\* hostname, or both with the same one)
C37_TelemetryHostnameMatchesStatus ==
    \A cat \in CategorySet :
       (xmit.kind = "publish" /\ xmit.topic \in StateTopics[cat])
          => \E h \in SanitizedHostnames :
                /\ xmit.topic = StateTopic(h, SensorType(cat))
                /\ mq["primary"].status_topic
                      = (IF h = <<>> THEN NoTopic ELSE StatusTopicOf(h))

\* C38: a game state with is_running false has no app id, and a message on
\* the game topic with is_running false carries none
C38_StoppedGameHasNoAppId ==
    /\ ~game_state.is_running => game_state.app_id = Absent
    /\ (xmit.kind = "publish" /\ xmit.topic \in StateTopics["game"]
          /\ ~xmit.payload.is_running)
         => xmit.payload.app_id = Absent

\* C39: when configure() has returned, the status topic is the one of the
\* hostname of that call: steamdeck/<sanitized hostname>/status for a
\* non-empty hostname, empty for the empty hostname
C39_ConfigureSetsStatusTopic ==
    ret.op = "configure"
       => mq["primary"].status_topic
             = (IF mq["primary"].hostname = <<>> THEN NoTopic
                ELSE StatusTopicOf(mq["primary"].hostname))

\* C40: on a connected session with a discovery publisher and the game flag
\* on, every step that changes the game state hands a game message to the
\* transport, and every game message carries the game snapshot get_telemetry
\* returns in the state the step leads to; so the last game message and the
\* snapshot, once equal, stay equal for as long as the session stays so
C40_GamePublishTracksState ==
    [][ /\ (Gate("game") /\ game_state' # game_state)
           => /\ xmit'.kind = "publish"
              /\ xmit'.topic \in StateTopics["game"]
        /\ (xmit'.kind = "publish" /\ xmit'.topic \in StateTopics["game"])
           => /\ xmit'.payload = get_telemetry(game_state', download_state').game
              /\ xmit'.payload = [game_name |-> game_state'.app_name,
                                  app_id |-> game_state'.app_id,
                                  is_running |-> game_state'.is_running]
      ]_vars

\* system_suspending has finalized the game of app 5 and published the
\* snapshot, which still names app 5
C40_Witness ==
    /\ pc = "system_suspending_download"
    /\ xmit.kind = "publish" /\ xmit.outcome = "ok"
    /\ xmit.topic \in StateTopics["game"]
    /\ xmit.payload = get_telemetry(game_state, download_state).game
    /\ xmit.payload.app_id = 5 /\ ~xmit.payload.is_running

====
